---------------------------- MODULE Spec2Model ----------------------------
(***************************************************************************)
(* Interview agent: the session store of app.py, the router of             *)
(* agents/orchestrator.py and the topic scheduling of the interviewer      *)
(* agent (langchain-interview-agent/src/agents/interviewer_agent.py).      *)
(*                                                                         *)
(* Strings are sequences of tokens.  A token is one character (":", " ",   *)
(* "K", "k", ...) or a whole word that contains neither ':' nor ' '        *)
(* ("Unverified", "unverified", "Project", ...), so that str.lower(),      *)
(* str.strip(), str.split(': ') and the substring test for "unverified"    *)
(* are computed on the tokens as Python computes them on the characters.   *)
(***************************************************************************)
EXTENDS Integers, Sequences, FiniteSets, TLC

VARIABLES
    db,             \* cv_id -> the resume record db.get_cv_by_id returns
    session_store,  \* app.py session_store: cv_id -> session (context) dict
    last,           \* record of the last chat turn: what was dispatched and decided
    pending         \* the calls of process() suspended in llm.ainvoke

vars == <<db, session_store, last, pending>>

-----------------------------------------------------------------------------
(* Bounds of the model *)

MaxUnverified == 2
MaxProjects == 2
MaxSkills == 1
MaxHistory == 28
MaxAnalysed == 1
MaxResearch == 2
MaxScoring == 2

-----------------------------------------------------------------------------
(* Strings *)

\* Python None for current_topic (falsy, like the empty string)
NoTopic == <<>>

\* str.lower() on one token
LowerTok(c) ==
    CASE c = "K" -> "k"
      [] c = "P" -> "p"
      [] c = "Unverified" -> "unverified"
      [] c = "Project" -> "project"
      [] c = "Verified" -> "verified"
      [] c = "Skill" -> "skill"
      [] c = "Moving" -> "moving"
      [] OTHER -> c

Lower(s) == [i \in 1..Len(s) |-> LowerTok(s[i])]

MaxOf(S) == CHOOSE x \in S : \A y \in S : y <= x
MinOf(S) == CHOOSE x \in S : \A y \in S : x <= y

\* str.strip(): leading and trailing whitespace removed
Strip(s) ==
    LET ink == {i \in 1..Len(s) : s[i] # " "}
    IN  IF ink = {} THEN <<>> ELSE SubSeq(s, MinOf(ink), MaxOf(ink))

\* normalize(name): str(name).strip().lower()
Normalize(name) == Lower(Strip(name))

\* current_topic.split(': ')[-1]: the text after the last ': '
LastSegment(s) ==
    LET cuts == {i \in 1..(Len(s) - 1) : s[i] = ":" /\ s[i + 1] = " "}
    IN  IF cuts = {} THEN s ELSE SubSeq(s, MaxOf(cuts) + 2, Len(s))

\* "unverified" in current_topic.lower()
ContainsUnverified(s) == \E i \in 1..Len(s) : LowerTok(s[i]) = "unverified"

UnverifiedPrefix == <<"Unverified", ":", " ">>
ProjectPrefix == <<"Project", ":", " ">>
VerifiedSkillPrefix == <<"Verified", " ", "Skill", ":", " ">>

HasPrefix(s, p) == Len(s) >= Len(p) /\ SubSeq(s, 1, Len(p)) = p

\* The skill and project names of the model: "K", "k " (equal to "K" once
\* normalized), "P", "a: b" (contains ': ') and "unverified-x" (contains the
\* word the category test looks for).
NameK == <<"K">>
NameKLower == <<"k", " ">>
NameP == <<"P">>
NameColon == <<"a", ":", " ", "b">>
NameUnv == <<"unverified", "-", "x">>

Names == {NameK, NameKLower, NameP, NameColon, NameUnv}

\* The names each pool of the interviewer draws from
UnverifiedNames == {NameK, NameKLower, NameColon}
ProjectNames == {NameK, NameP, NameColon, NameUnv}
SkillNames == {NameK, NameP, NameColon}

\* The names the deep analysis of a chat session returns, and its CV skills
AnalysedUnverified == {NameK}
AnalysedProjects == {NameP}
ChatSkillNames == {NameK}

\* Byte order of the names' first characters (SQLite ORDER BY skill_name)
NameRank(n) ==
    CASE n = NameK -> 1
      [] n = NameP -> 2
      [] n = NameColon -> 3
      [] n = NameKLower -> 4
      [] OTHER -> 5

SeqsUpTo(S, n) == UNION {[1..k -> S] : k \in 0..n}

NormSet(topics) == {Normalize(topics[i]) : i \in 1..Len(topics)}


-----------------------------------------------------------------------------
(* InterviewerAgent.process: transition policy, ledger and topic selector *)

\* max_turns: 2 for a topic whose label contains "unverified", else 3
MaxTurns(current_topic) == IF ContainsUnverified(current_topic) THEN 2 ELSE 3

\* Variant: the turn limit alone decides, the disengagement flag is ignored
ForceTransition_TurnLimitOnly(is_unknown, current_topic, topic_turns) ==
    current_topic # NoTopic /\ topic_turns > MaxTurns(current_topic)

\* force_transition, from the disengagement flag and the incremented turn count
ForceTransition(is_unknown, current_topic, topic_turns) ==
    IF is_unknown /\ current_topic # NoTopic
    THEN TRUE
    ELSE IF current_topic # NoTopic
         THEN topic_turns > MaxTurns(current_topic)
         ELSE FALSE

\* Variant: the forced topic is appended and counted without the membership test
Retire_NoCheck(covered, unverified_asked, projects_asked, current_topic) ==
    [covered |-> Append(covered, LastSegment(current_topic)),
     unverified_asked |->
         IF ContainsUnverified(current_topic)
         THEN unverified_asked + 1 ELSE unverified_asked,
     projects_asked |->
         IF ContainsUnverified(current_topic)
         THEN projects_asked ELSE projects_asked + 1]

\* Variant: the membership test on the names as written, not normalized
Retire_ExactMatch(covered, unverified_asked, projects_asked, current_topic) ==
    LET topic_name == LastSegment(current_topic)
    IN  IF topic_name \notin {covered[i] : i \in 1..Len(covered)}
        THEN [covered |-> Append(covered, topic_name),
              unverified_asked |->
                  IF ContainsUnverified(current_topic)
                  THEN unverified_asked + 1 ELSE unverified_asked,
              projects_asked |->
                  IF ContainsUnverified(current_topic)
                  THEN projects_asked ELSE projects_asked + 1]
        ELSE [covered |-> covered,
              unverified_asked |-> unverified_asked,
              projects_asked |-> projects_asked]

\* Variant: the counter is incremented outside the membership test
Retire_CountAlways(covered, unverified_asked, projects_asked, current_topic) ==
    LET topic_name == LastSegment(current_topic)
    IN  [covered |-> IF Normalize(topic_name) \notin NormSet(covered)
                     THEN Append(covered, topic_name) ELSE covered,
         unverified_asked |->
             IF ContainsUnverified(current_topic)
             THEN unverified_asked + 1 ELSE unverified_asked,
         projects_asked |->
             IF ContainsUnverified(current_topic)
             THEN projects_asked ELSE projects_asked + 1]

\* Mark the forced topic as covered and count it in its category
Retire(covered, unverified_asked, projects_asked, current_topic) ==
    LET topic_name == LastSegment(current_topic)
    IN  IF Normalize(topic_name) \notin NormSet(covered)
        THEN [covered |-> Append(covered, topic_name),
              unverified_asked |->
                  IF ContainsUnverified(current_topic)
                  THEN unverified_asked + 1 ELSE unverified_asked,
              projects_asked |->
                  IF ContainsUnverified(current_topic)
                  THEN projects_asked ELSE projects_asked + 1]
        ELSE [covered |-> covered,
              unverified_asked |-> unverified_asked,
              projects_asked |-> projects_asked]

\* Variant: the ratio guard with "at most" in place of equality
PickUnverified_AtMost(unverified_skills, unverified_asked, projects_asked) ==
    /\ unverified_asked < Len(unverified_skills)
    /\ projects_asked <= unverified_asked * 2

\* pick_unverified: the 1:2 ratio guard
PickUnverified(unverified_skills, unverified_asked, projects_asked) ==
    /\ unverified_asked < Len(unverified_skills)
    /\ projects_asked = unverified_asked * 2

\* available_projects: named projects whose normalized name is not covered
\* (an entry is a record with a name or a bare string; either way its name)
AvailableProjects(discovered_projects, covered) ==
    LET normalized_covered == NormSet(covered)
        free(p) == p # <<>> /\ Normalize(p) \notin normalized_covered
    IN  SelectSeq(discovered_projects, free)

\* Variant: every uncovered CV skill, whether in the unverified pool or not
VerifiedSkills_AnyUncovered(skills, unverified_skills, covered) ==
    LET normalized_covered == NormSet(covered)
        free(s) == Normalize(s) \notin normalized_covered
    IN  SelectSeq(skills, free)

\* verified_skills: CV skills neither in the unverified pool nor covered
VerifiedSkills(skills, unverified_skills, covered) ==
    LET unverified_set == NormSet(unverified_skills)
        normalized_covered == NormSet(covered)
        free(s) == /\ Normalize(s) \notin unverified_set
                   /\ Normalize(s) \notin normalized_covered
    IN  SelectSeq(skills, free)

\* The topic the selector activates; NoTopic on the generic fallback
SelectTopic(unverified_skills, discovered_projects, skills, covered, unverified_asked, projects_asked) ==
    IF PickUnverified(unverified_skills, unverified_asked, projects_asked)
    THEN UnverifiedPrefix \o unverified_skills[unverified_asked + 1]
    ELSE LET available_projects == AvailableProjects(discovered_projects, covered)
             verified_skills == VerifiedSkills(skills, unverified_skills, covered)
         IN  IF available_projects # <<>>
             THEN ProjectPrefix \o available_projects[1]
             ELSE IF verified_skills # <<>>
                  THEN VerifiedSkillPrefix \o verified_skills[1]
                  ELSE NoTopic

\* Variant: a topic is selected only on the first turn of the interview
Selecting_StartOnly(state, current_topic) == state = "INTERVIEW_START"

\* The test that opens the topic selection
Selecting(state, current_topic) ==
    state = "INTERVIEW_START" \/ current_topic = NoTopic

\* The local variables of process() when it reaches the LLM call
InterviewerLocals(context, is_unknown) ==
    LET current_topic == context.current_topic
        turns == IF current_topic # NoTopic
                 THEN context.topic_turns + 1 ELSE context.topic_turns
        force_transition == ForceTransition(is_unknown, current_topic, turns)
        ledger == IF force_transition /\ current_topic # NoTopic
                  THEN Retire(context.covered_topics, context.unverified_asked,
                              context.projects_asked, current_topic)
                  ELSE [covered |-> context.covered_topics,
                        unverified_asked |-> context.unverified_asked,
                        projects_asked |-> context.projects_asked]
        topic2 == IF force_transition /\ current_topic # NoTopic
                  THEN NoTopic ELSE current_topic
        turns2 == IF force_transition /\ current_topic # NoTopic THEN 0 ELSE turns
        selecting == Selecting(context.state, topic2)
    IN  [turns |-> turns,
         force_transition |-> force_transition /\ current_topic # NoTopic,
         topic_name |-> IF force_transition /\ current_topic # NoTopic
                        THEN LastSegment(current_topic) ELSE NoTopic,
         selecting |-> selecting,
         covered_topics |-> ledger.covered,
         unverified_asked |-> ledger.unverified_asked,
         projects_asked |-> ledger.projects_asked,
         topic_turns |-> IF selecting THEN 1 ELSE turns2,
         current_topic |->
             IF selecting
             THEN SelectTopic(context.unverified_skills, context.discovered_projects,
                              context.cv_data.skills, ledger.covered,
                              ledger.unverified_asked, ledger.projects_asked)
             ELSE topic2]

\* The context as process() has left it when the LLM call is reached: the
\* covered_topics list is appended to in place, state and current_topic are
\* written by the selection branch
InterviewerBeforeLLM(context, loc) ==
    [context EXCEPT
        !.covered_topics = loc.covered_topics,
        !.state = IF loc.selecting THEN "INTERVIEWING" ELSE @,
        !.current_topic = IF loc.selecting THEN loc.current_topic ELSE @]

\* Variant: topic_turns is not written back
InterviewerAfterLLM_NoTurns(context, loc) ==
    [context EXCEPT
        !.current_topic = loc.current_topic,
        !.unverified_asked = loc.unverified_asked,
        !.projects_asked = loc.projects_asked,
        !.covered_topics = loc.covered_topics]

\* The trackers written back after the LLM call has returned
InterviewerAfterLLM(context, loc) ==
    [context EXCEPT
        !.current_topic = loc.current_topic,
        !.topic_turns = loc.topic_turns,
        !.unverified_asked = loc.unverified_asked,
        !.projects_asked = loc.projects_asked,
        !.covered_topics = loc.covered_topics]

\* process(): the context it leaves, by whether the LLM call succeeded, and
\* the local variables it decided with
InterviewerProcess(context, is_unknown, llm_ok) ==
    LET loc == InterviewerLocals(context, is_unknown)
        before == InterviewerBeforeLLM(context, loc)
    IN  [context |-> IF llm_ok THEN InterviewerAfterLLM(before, loc) ELSE before,
         loc |-> loc]

-----------------------------------------------------------------------------
(* User messages, by the substring tests the code applies to them *)

Utter(text, greet, github, linkedin, finish, unknown, skip) ==
    [text |-> text,
     greet |-> greet,        \* contains "hi", "hello" or "hey"
     github |-> github,      \* contains a github.com/<user> link
     linkedin |-> linkedin,  \* contains a linkedin.com/in/<user> link
     finish |-> finish,      \* contains "finish the interview"
     unknown |-> unknown,    \* contains one of the interviewer's unknown_signals
     skip |-> skip]          \* contains one of the research agent's skip phrases

Utterances ==
    {Utter("I used a queue for that", FALSE, FALSE, FALSE, FALSE, FALSE, FALSE),
     Utter("hello", TRUE, FALSE, FALSE, FALSE, FALSE, FALSE),
     Utter("I don't know", FALSE, FALSE, FALSE, FALSE, TRUE, FALSE),
     Utter("skip", FALSE, FALSE, FALSE, FALSE, TRUE, TRUE),
     Utter("hey, no idea", TRUE, FALSE, FALSE, FALSE, TRUE, FALSE),
     Utter("I do not have one", FALSE, FALSE, FALSE, FALSE, FALSE, TRUE),
     Utter("finish the interview", FALSE, FALSE, FALSE, TRUE, FALSE, FALSE),
     Utter("hey, finish the interview", TRUE, FALSE, FALSE, TRUE, FALSE, FALSE),
     Utter("github.com/me", FALSE, TRUE, FALSE, FALSE, FALSE, FALSE),
     Utter("linkedin.com/in/me", FALSE, FALSE, TRUE, FALSE, FALSE, FALSE),
     Utter("hello, github.com/me", TRUE, TRUE, FALSE, FALSE, FALSE, FALSE)}

-----------------------------------------------------------------------------
(* The other agents *)

\* Variant: the greeting sends the session back to the research stage
GreetingProcess_Restart(context) == [context EXCEPT !.state = "RESEARCH"]

\* GreetingAgent.process: the context is returned as it came
GreetingProcess(context) == context

\* KPIAgent.process: stores the benchmarks once the LLM call has returned
\* (job_description is set at session creation, so the fallback is not taken)
KPIProcess(context, llm_ok) ==
    IF llm_ok THEN [context EXCEPT !.kpis = TRUE] ELSE context

\* Variant: the assessment reopens the interview
FeedbackProcess_Reopen(context) == [context EXCEPT !.state = "INTERVIEWING"]

\* FeedbackAgent.process: reads history and kpis, writes nothing
FeedbackProcess(context) == context

NoLink(link) == link = "none" \/ link = "N/A"

\* Variant: a message whose links all fail is treated as one without links
ResearchProcess_IgnoreErrors(context, u, v, analysis) ==
    LET cv == context.cv_data
        gh_ok == context.github_verified
                 \/ (~NoLink(cv.github) /\ v.cv_github)
        li_ok == context.linkedin_verified
                 \/ (~NoLink(cv.linkedin) /\ v.cv_linkedin)
        c1 == [context EXCEPT !.github_verified = gh_ok,
                              !.linkedin_verified = li_ok]
        missing_prompts == NoLink(cv.github) \/ ~gh_ok
                           \/ NoLink(cv.linkedin) \/ ~li_ok
        got_github == u.github /\ v.msg_github
        got_linkedin == u.linkedin /\ v.msg_linkedin
        extracted_any == got_github \/ got_linkedin
        verification_errors == (u.github /\ ~v.msg_github)
                               \/ (u.linkedin /\ ~v.msg_linkedin)
        c2 == [c1 EXCEPT
                 !.cv_data.github = IF got_github THEN "chat-url" ELSE @,
                 !.cv_data.linkedin = IF got_linkedin THEN "chat-url" ELSE @,
                 !.github_verified = got_github \/ @,
                 !.linkedin_verified = got_linkedin \/ @]
        analysed(c) == [c EXCEPT !.unverified_skills = analysis.unverified,
                                 !.discovered_projects = analysis.projects]
    IN  IF u.skip
        THEN [context |->
                  [c1 EXCEPT
                     !.cv_data.github = IF @ = "none" THEN "N/A" ELSE @,
                     !.cv_data.linkedin = IF @ = "none" THEN "N/A" ELSE @],
              next_state |-> "KPI_CALCULATION", analysed |-> FALSE]
        ELSE IF (u.github \/ u.linkedin) /\ extracted_any
        THEN [context |-> analysed(c2), next_state |-> "KPI_CALCULATION",
              analysed |-> TRUE]
        ELSE IF missing_prompts
        THEN [context |-> c1, next_state |-> "", analysed |-> FALSE]
        ELSE [context |-> analysed(c1), next_state |-> "KPI_CALCULATION",
              analysed |-> TRUE]

\* ResearchAgent.process.  v: the answers of verify_link for the CV's links and
\* for the links of the message; analysis: what _perform_deep_analysis returns.
\* The result is the context, the next_state ("" when none is reported) and
\* whether _perform_deep_analysis was called.
ResearchProcess(context, u, v, analysis) ==
    LET cv == context.cv_data
        gh_ok == context.github_verified
                 \/ (~NoLink(cv.github) /\ v.cv_github)
        li_ok == context.linkedin_verified
                 \/ (~NoLink(cv.linkedin) /\ v.cv_linkedin)
        c1 == [context EXCEPT !.github_verified = gh_ok,
                              !.linkedin_verified = li_ok]
        missing_prompts == NoLink(cv.github) \/ ~gh_ok
                           \/ NoLink(cv.linkedin) \/ ~li_ok
        got_github == u.github /\ v.msg_github
        got_linkedin == u.linkedin /\ v.msg_linkedin
        extracted_any == got_github \/ got_linkedin
        verification_errors == (u.github /\ ~v.msg_github)
                               \/ (u.linkedin /\ ~v.msg_linkedin)
        c2 == [c1 EXCEPT
                 !.cv_data.github = IF got_github THEN "chat-url" ELSE @,
                 !.cv_data.linkedin = IF got_linkedin THEN "chat-url" ELSE @,
                 !.github_verified = got_github \/ @,
                 !.linkedin_verified = got_linkedin \/ @]
        analysed(c) == [c EXCEPT !.unverified_skills = analysis.unverified,
                                 !.discovered_projects = analysis.projects]
    IN  IF u.skip
        THEN [context |->
                  [c1 EXCEPT
                     !.cv_data.github = IF @ = "none" THEN "N/A" ELSE @,
                     !.cv_data.linkedin = IF @ = "none" THEN "N/A" ELSE @],
              next_state |-> "KPI_CALCULATION", analysed |-> FALSE]
        ELSE IF (u.github \/ u.linkedin) /\ verification_errors /\ ~extracted_any
        THEN [context |-> c2, next_state |-> "", analysed |-> FALSE]
        ELSE IF (u.github \/ u.linkedin) /\ extracted_any
        THEN [context |-> analysed(c2), next_state |-> "KPI_CALCULATION",
              analysed |-> TRUE]
        ELSE IF missing_prompts
        THEN [context |-> c1, next_state |-> "", analysed |-> FALSE]
        ELSE [context |-> analysed(c1), next_state |-> "KPI_CALCULATION",
              analysed |-> TRUE]

-----------------------------------------------------------------------------
(* Orchestrator.route *)

HistoryCap == 25
GreetingWindow == 3

\* Variant: the greeting check without the history window
RouteTarget_AnyGreeting(state, history, u) ==
    IF u.greet /\ ~(u.github \/ u.linkedin)
    THEN "GreetingBot"
    ELSE CASE state = "START" \/ state = "RESEARCH" -> "ResearchAgent"
           [] state = "KPI_CALCULATION" -> "KPIAgent"
           [] state = "INTERVIEW_START" \/ state = "INTERVIEWING" ->
                  IF u.finish \/ Len(history) > HistoryCap
                  THEN "ScoreAgent" ELSE "InterviewerAgent"
           [] state = "SCORING" -> "ScoreAgent"
           [] OTHER -> "InterviewerAgent"

\* Variant: the interview branch without the finish phrase
RouteTarget_NoFinish(state, history, u) ==
    IF u.greet /\ Len(history) < GreetingWindow /\ ~(u.github \/ u.linkedin)
    THEN "GreetingBot"
    ELSE CASE state = "START" \/ state = "RESEARCH" -> "ResearchAgent"
           [] state = "KPI_CALCULATION" -> "KPIAgent"
           [] state = "INTERVIEW_START" \/ state = "INTERVIEWING" ->
                  IF Len(history) > HistoryCap
                  THEN "ScoreAgent" ELSE "InterviewerAgent"
           [] state = "SCORING" -> "ScoreAgent"
           [] OTHER -> "InterviewerAgent"

\* Variant: the greeting window reaches past the research and KPI turns
RouteTarget_WideWindow(state, history, u) ==
    IF u.greet /\ Len(history) < GreetingWindow + 4 /\ ~(u.github \/ u.linkedin)
    THEN "GreetingBot"
    ELSE CASE state = "START" \/ state = "RESEARCH" -> "ResearchAgent"
           [] state = "KPI_CALCULATION" -> "KPIAgent"
           [] state = "INTERVIEW_START" \/ state = "INTERVIEWING" ->
                  IF u.finish \/ Len(history) > HistoryCap
                  THEN "ScoreAgent" ELSE "InterviewerAgent"
           [] state = "SCORING" -> "ScoreAgent"
           [] OTHER -> "InterviewerAgent"

\* Variant: the scoring test without the history cap
RouteTarget_NoCap(state, history, u) ==
    IF u.greet /\ Len(history) < GreetingWindow /\ ~(u.github \/ u.linkedin)
    THEN "GreetingBot"
    ELSE CASE state = "START" \/ state = "RESEARCH" -> "ResearchAgent"
           [] state = "KPI_CALCULATION" -> "KPIAgent"
           [] state = "INTERVIEW_START" \/ state = "INTERVIEWING" ->
                  IF u.finish THEN "ScoreAgent" ELSE "InterviewerAgent"
           [] state = "SCORING" -> "ScoreAgent"
           [] OTHER -> "InterviewerAgent"

\* The agent route() dispatches the turn to
RouteTarget(state, history, u) ==
    IF u.greet /\ Len(history) < GreetingWindow /\ ~(u.github \/ u.linkedin)
    THEN "GreetingBot"
    ELSE CASE state = "START" \/ state = "RESEARCH" -> "ResearchAgent"
           [] state = "KPI_CALCULATION" -> "KPIAgent"
           [] state = "INTERVIEW_START" \/ state = "INTERVIEWING" ->
                  IF u.finish \/ Len(history) > HistoryCap
                  THEN "ScoreAgent" ELSE "InterviewerAgent"
           [] state = "SCORING" -> "ScoreAgent"
           [] OTHER -> "InterviewerAgent"

\* The state route() writes before it calls the agent
RouteEntryState(state, target) ==
    IF state = "INTERVIEW_START" \/ state = "INTERVIEWING"
    THEN IF target = "ScoreAgent" THEN "SCORING"
         ELSE IF target = "InterviewerAgent" THEN "INTERVIEWING" ELSE state
    ELSE state

-----------------------------------------------------------------------------
(* app.py: the session store and chat_with_agent *)

CvIds == {"cv1"}

\* The session chat_with_agent creates on the first message of a cv_id
\* (topic_turns is absent from the dict and read with the default 0)
NewSession(cv_data) ==
    [cv_data |-> cv_data,
     history |-> <<>>,
     state |-> "START",
     unverified_asked |-> 0,
     projects_asked |-> 0,
     covered_topics |-> <<>>,
     current_topic |-> NoTopic,
     topic_turns |-> 0,
     unverified_skills |-> <<>>,
     discovered_projects |-> <<>>,
     github_verified |-> FALSE,
     linkedin_verified |-> FALSE,
     kpis |-> FALSE]

\* session_store[cv_id], created if absent
SessionOf(cv_id) ==
    IF cv_id \in DOMAIN session_store
    THEN session_store[cv_id] ELSE NewSession(db[cv_id])

\* Variant: the context of the turn is stored for every session
Put_Shared(cv_id, context) ==
    [c \in (DOMAIN session_store) \cup {cv_id} |-> context]

Put(cv_id, context) ==
    [c \in (DOMAIN session_store) \cup {cv_id} |->
        IF c = cv_id THEN context ELSE session_store[c]]

\* Variant: only the assistant's entry is appended
WithTurn_ReplyOnly(context, agent) ==
    [context EXCEPT !.history = Append(@, agent)]

\* The two history entries of a completed turn
WithTurn(context, agent) ==
    [context EXCEPT !.history = Append(Append(@, "user"), agent)]

NoLocals ==
    [turns |-> 0, force_transition |-> FALSE, topic_name |-> NoTopic, selecting |-> FALSE,
     current_topic |-> NoTopic, unverified_asked |-> 0, projects_asked |-> 0]

\* What the last turn did: the agent dispatched, whether its LLM call
\* returned, is_unknown as process() computed it, the two terms of route()'s
\* scoring test where it evaluated them, and the interviewer's decisions
\* (turns: topic_turns as the turn limit tested it; the counters: as the
\* selector read them)
TurnLog(cv_id, agent, llm_ok, u, context, loc) ==
    LET interview_branch ==
            /\ agent # "GreetingBot"
            /\ context.state \in {"INTERVIEW_START", "INTERVIEWING"}
    IN  [cv_id |-> cv_id, agent |-> agent, ok |-> llm_ok,
         unknown |-> agent = "InterviewerAgent" /\ u.unknown,
         finish |-> interview_branch /\ u.finish,
         capped |-> interview_branch /\ Len(context.history) > HistoryCap,
         turns |-> loc.turns,
         force_transition |-> loc.force_transition,
         topic_name |-> loc.topic_name,
         selecting |-> loc.selecting,
         selected |-> loc.current_topic,
         unverified_asked |-> loc.unverified_asked,
         projects_asked |-> loc.projects_asked]

Accepting(cv_id) == Len(SessionOf(cv_id).history) < MaxHistory

\* The completed turns of an agent in the session's history
TurnsOf(cv_id, agent) ==
    Cardinality({i \in DOMAIN SessionOf(cv_id).history :
                    SessionOf(cv_id).history[i] = agent})

\* The messages route() dispatches to the given agent in the session's state
RoutedTo(cv_id, agent) ==
    {u \in Utterances :
        RouteTarget(SessionOf(cv_id).state, SessionOf(cv_id).history, u) = agent}

ChatGreeting(cv_id) ==
    /\ Accepting(cv_id)
    /\ \E u \in RoutedTo(cv_id, "GreetingBot"), llm_ok \in BOOLEAN :
        LET context == SessionOf(cv_id)
        IN  /\ session_store' =
                   Put(cv_id, IF llm_ok
                              THEN WithTurn(GreetingProcess(context), "GreetingBot")
                              ELSE context)
            /\ last' = TurnLog(cv_id, "GreetingBot", llm_ok, u, context, NoLocals)
            /\ UNCHANGED <<db, pending>>

\* What verify_link may answer for the four links of a research turn
Verdicts ==
    [cv_github : BOOLEAN, cv_linkedin : BOOLEAN,
     msg_github : BOOLEAN, msg_linkedin : BOOLEAN]

\* What _perform_deep_analysis may return to a chat session
Analyses ==
    [unverified : SeqsUpTo(AnalysedUnverified, MaxAnalysed),
     projects : SeqsUpTo(AnalysedProjects, MaxAnalysed)]

\* The research agent catches the failures of its collaborators itself
ChatResearch(cv_id) ==
    /\ Accepting(cv_id)
    /\ TurnsOf(cv_id, "ResearchAgent") < MaxResearch
    /\ \E u \in RoutedTo(cv_id, "ResearchAgent"), v \in Verdicts, analysis \in Analyses :
        LET context == SessionOf(cv_id)
            r == ResearchProcess(context, u, v, analysis)
            routed == [r.context EXCEPT
                         !.state = IF r.next_state # "" THEN r.next_state ELSE @]
        IN  /\ session_store' = Put(cv_id, WithTurn(routed, "ResearchAgent"))
            /\ last' = TurnLog(cv_id, "ResearchAgent", TRUE, u, context, NoLocals)
            /\ UNCHANGED <<db, pending>>

ChatKPI(cv_id) ==
    /\ Accepting(cv_id)
    /\ \E u \in RoutedTo(cv_id, "KPIAgent"), llm_ok \in BOOLEAN :
        LET context == SessionOf(cv_id)
            done == [KPIProcess(context, llm_ok) EXCEPT !.state = "INTERVIEW_START"]
        IN  /\ session_store' =
                   Put(cv_id, IF llm_ok THEN WithTurn(done, "KPIAgent")
                              ELSE KPIProcess(context, llm_ok))
            /\ last' = TurnLog(cv_id, "KPIAgent", llm_ok, u, context, NoLocals)
            /\ UNCHANGED <<db, pending>>

ChatInterviewer(cv_id) ==
    /\ Accepting(cv_id)
    /\ \E u \in RoutedTo(cv_id, "InterviewerAgent"), llm_ok \in BOOLEAN :
        LET context == SessionOf(cv_id)
            entered == [context EXCEPT !.state = RouteEntryState(@, "InterviewerAgent")]
            run == InterviewerProcess(entered, u.unknown, llm_ok)
        IN  /\ session_store' =
                   Put(cv_id, IF llm_ok THEN WithTurn(run.context, "InterviewerAgent")
                              ELSE run.context)
            /\ last' = TurnLog(cv_id, "InterviewerAgent", llm_ok, u, context, run.loc)
            /\ UNCHANGED <<db, pending>>

ChatScoring(cv_id) ==
    /\ Accepting(cv_id)
    /\ TurnsOf(cv_id, "ScoreAgent") < MaxScoring
    /\ \E u \in RoutedTo(cv_id, "ScoreAgent"), llm_ok \in BOOLEAN :
        LET context == SessionOf(cv_id)
            entered == [context EXCEPT !.state = RouteEntryState(@, "ScoreAgent")]
        IN  /\ session_store' =
                   Put(cv_id, IF llm_ok
                              THEN WithTurn(FeedbackProcess(entered), "ScoreAgent")
                              ELSE entered)
            /\ last' = TurnLog(cv_id, "ScoreAgent", llm_ok, u, context, NoLocals)
            /\ UNCHANGED <<db, pending>>

-----------------------------------------------------------------------------
(* The chat application *)

\* get_resume_skills returns the skills ORDER BY skill_name
SkillLists ==
    {s \in SeqsUpTo(SkillNames, MaxSkills) :
        \A i \in 1..Len(s), j \in 1..Len(s) :
            i < j => NameRank(s[i]) <= NameRank(s[j])}

\* The resumes of the chat sessions: a GitHub link or none, a LinkedIn link
CvRecords ==
    [skills : {s \in SkillLists :
                  Len(s) = MaxSkills /\ \A i \in 1..Len(s) : s[i] \in ChatSkillNames},
     github : {"none", "cv-url"}, linkedin : {"cv-url"}]

NoTurn ==
    [cv_id |-> "", agent |-> "", ok |-> TRUE,
     unknown |-> FALSE, finish |-> FALSE, capped |-> FALSE,
     turns |-> 0, force_transition |-> FALSE, topic_name |-> NoTopic,
     selecting |-> FALSE, selected |-> NoTopic,
     unverified_asked |-> 0, projects_asked |-> 0]

\* No call is suspended.  base: the context when the first call of the current
\* batch of overlapping calls began; started: the messages of the batch in the
\* order the calls began; open: the calls still awaiting the LLM
NoPending == [base |-> <<>>, started |-> <<>>, open |-> {}]

Init ==
    /\ db \in [CvIds -> CvRecords]
    /\ session_store = [c \in {} |-> NoTurn]
    /\ last = NoTurn
    /\ pending = NoPending

Next ==
    \E cv_id \in CvIds :
        \/ ChatGreeting(cv_id)
        \/ ChatResearch(cv_id)
        \/ ChatKPI(cv_id)
        \/ ChatInterviewer(cv_id)
        \/ ChatScoring(cv_id)

Spec == Init /\ [][Next]_vars

-----------------------------------------------------------------------------
(* The interviewer on its own: every pool the research phase can hand over *)

\* A session as the KPI turn leaves it, with the pools of the research turn
InterviewSession(cv_data, unverified_skills, discovered_projects) ==
    [NewSession(cv_data) EXCEPT
        !.state = "INTERVIEW_START",
        !.history = <<"user", "ResearchAgent", "user", "KPIAgent">>,
        !.unverified_skills = unverified_skills,
        !.discovered_projects = discovered_projects,
        !.kpis = TRUE]

\* process() reads one thing of the message: whether it holds an unknown signal
InterviewerInputs ==
    {u \in Utterances : ~u.greet /\ ~u.finish /\ ~u.skip /\ ~u.github /\ ~u.linkedin}

InitInterviewer ==
    /\ db \in [CvIds -> [skills : SkillLists,
                         github : {"N/A"}, linkedin : {"N/A"}]]
    /\ \E us \in SeqsUpTo(UnverifiedNames, MaxUnverified),
          ps \in SeqsUpTo(ProjectNames, MaxProjects) :
           session_store = [c \in CvIds |-> InterviewSession(db[c], us, ps)]
    /\ last = NoTurn
    /\ pending = NoPending

\* One call of InterviewerAgent.process whose LLM call returns
Process(cv_id) ==
    \E u \in InterviewerInputs :
        LET context == session_store[cv_id]
            run == InterviewerProcess(context, u.unknown, TRUE)
        IN  /\ session_store' = Put(cv_id, run.context)
            /\ last' = TurnLog(cv_id, "InterviewerAgent", TRUE, u, context, run.loc)
            /\ UNCHANGED <<db, pending>>

\* One call of InterviewerAgent.process whose LLM call raises
ProcessFails(cv_id) ==
    \E u \in InterviewerInputs :
        LET context == session_store[cv_id]
            run == InterviewerProcess(context, u.unknown, FALSE)
        IN  /\ session_store' = Put(cv_id, run.context)
            /\ last' = TurnLog(cv_id, "InterviewerAgent", FALSE, u, context, run.loc)
            /\ UNCHANGED <<db, pending>>

NextInterviewer ==
    \E cv_id \in CvIds : Process(cv_id) \/ ProcessFails(cv_id)

SpecInterviewer == InitInterviewer /\ [][NextInterviewer]_vars

\* The interviewer when every LLM call returns
NextInterviewerOk == \E cv_id \in CvIds : Process(cv_id)

SpecInterviewerOk == InitInterviewer /\ [][NextInterviewerOk]_vars

-----------------------------------------------------------------------------
(* The chat application when every turn completes and the user never says    *)
(* the finish phrase, with no bound on the turns an agent takes other than   *)
(* the length of the history                                                 *)

MaxLongHistory == 30

\* The messages without the finish phrase
NonFinishing == {u \in Utterances : ~u.finish}

\* One completed turn of chat_with_agent, whichever agent route() picks
CompletedTurn(cv_id) ==
    /\ Len(SessionOf(cv_id).history) < MaxLongHistory
    /\ \E context \in {SessionOf(cv_id)}, u \in NonFinishing :
       \E target \in {RouteTarget(context.state, context.history, u)} :
       \E v \in IF target = "ResearchAgent" THEN Verdicts
                ELSE {[cv_github |-> FALSE, cv_linkedin |-> FALSE,
                       msg_github |-> FALSE, msg_linkedin |-> FALSE]},
          analysis \in IF target = "ResearchAgent" THEN Analyses
                       ELSE {[unverified |-> <<>>, projects |-> <<>>]} :
       \E entered \in {[context EXCEPT !.state = RouteEntryState(@, target)]} :
       \E r \in {ResearchProcess(context, u, v, analysis)},
          run \in {InterviewerProcess(entered, u.unknown, TRUE)} :
        LET after ==
                CASE target = "GreetingBot" -> GreetingProcess(context)
                  [] target = "ResearchAgent" ->
                         [r.context EXCEPT
                            !.state = IF r.next_state # "" THEN r.next_state ELSE @]
                  [] target = "KPIAgent" ->
                         [KPIProcess(context, TRUE) EXCEPT !.state = "INTERVIEW_START"]
                  [] target = "InterviewerAgent" -> run.context
                  [] OTHER -> FeedbackProcess(entered)
        IN  /\ session_store' = Put(cv_id, WithTurn(after, target))
            /\ last' = TurnLog(cv_id, target, TRUE, u, context,
                               IF target = "InterviewerAgent" THEN run.loc ELSE NoLocals)
            /\ UNCHANGED <<db, pending>>

NextCompleted == \E cv_id \in CvIds : CompletedTurn(cv_id)

SpecCompleted == Init /\ [][NextCompleted]_vars

-----------------------------------------------------------------------------
(* The interviewer's use of the LLM *)

\* What the provider would answer to the successive invocations of one turn,
\* were they made: TRUE a reply, FALSE an exception
MaxAttempts == 2
LLMOutcomes == [1..MaxAttempts -> BOOLEAN]

\* Variant: a failed invocation is tried once more
InterviewerInvoke_Retry(outcomes) ==
    [calls |-> IF outcomes[1] THEN 1 ELSE 2, ok |-> outcomes[1] \/ outcomes[2]]

\* The invocations process() makes: one awaited llm.ainvoke outside any try,
\* on the one path every branch of the topic logic joins
InterviewerInvoke(outcomes) == [calls |-> 1, ok |-> outcomes[1]]

\* One call of InterviewerAgent.process against such a provider; the log keeps
\* the branch taken, the number of invocations and what they met
Invoke(cv_id) ==
    \E u \in InterviewerInputs, outcomes \in LLMOutcomes :
    \E context \in {session_store[cv_id]}, call \in {InterviewerInvoke(outcomes)} :
    \E run \in {InterviewerProcess(context, u.unknown, call.ok)} :
        /\ session_store' = Put(cv_id, run.context)
        /\ last' = [cv_id |-> cv_id, agent |-> "InterviewerAgent", ok |-> call.ok,
                    calls |-> call.calls, outcomes |-> outcomes,
                    force_transition |-> run.loc.force_transition,
                    selecting |-> run.loc.selecting]
        /\ UNCHANGED <<db, pending>>

NextInvocation == \E cv_id \in CvIds : Invoke(cv_id)

SpecInvocation == InitInterviewer /\ [][NextInvocation]_vars

-----------------------------------------------------------------------------
(* The earlier interviewer agent (src/agents/interviewer_agent.py): the LLM's *)
(* reply, not a turn count, decides when a topic is left                      *)

MaxLegacyAsked == 6

\* Variant: the guard without the ratio term
LegacyPickUnverified_NoRatio(unverified_skills, unverified_asked, projects_asked) ==
    unverified_asked < Len(unverified_skills)

\* can_verify and not must_do_project
LegacyPickUnverified(unverified_skills, unverified_asked, projects_asked) ==
    LET can_verify == unverified_asked < Len(unverified_skills)
        must_do_project == projects_asked < unverified_asked * 2 \/ ~can_verify
    IN  can_verify /\ ~must_do_project

\* available_projects: named projects whose name is not in covered_topics
LegacyAvailableProjects(discovered_projects, covered) ==
    LET free(p) == p # <<>> /\ p \notin {covered[i] : i \in 1..Len(covered)}
    IN  SelectSeq(discovered_projects, free)

\* The topic selection: an unverified skill, else a project, else no topic
LegacySelectTopic(unverified_skills, discovered_projects, covered, unverified_asked, projects_asked) ==
    IF LegacyPickUnverified(unverified_skills, unverified_asked, projects_asked)
    THEN UnverifiedPrefix \o unverified_skills[unverified_asked + 1]
    ELSE LET available_projects == LegacyAvailableProjects(discovered_projects, covered)
         IN  IF available_projects # <<>>
             THEN ProjectPrefix \o available_projects[1]
             ELSE NoTopic

\* process() of the earlier agent.  moving_on: the reply holds "moving on" or
\* "another area"; when the LLM call raises, only the writes of the selection
\* have been made
LegacyProcess(context, moving_on, llm_ok) ==
    LET selecting == context.state = "INTERVIEW_START" \/ context.current_topic = NoTopic
        current_topic ==
            IF selecting
            THEN LegacySelectTopic(context.unverified_skills, context.discovered_projects,
                                   context.covered_topics, context.unverified_asked,
                                   context.projects_asked)
            ELSE context.current_topic
        before == [context EXCEPT
                     !.state = IF selecting THEN "INTERVIEWING" ELSE @,
                     !.current_topic = IF selecting THEN current_topic ELSE @]
        counted == moving_on /\ current_topic # NoTopic
    IN  IF ~llm_ok THEN before
        ELSE [before EXCEPT
                !.covered_topics =
                    IF counted THEN Append(@, LastSegment(current_topic)) ELSE @,
                !.unverified_asked =
                    IF counted /\ ContainsUnverified(current_topic) THEN @ + 1 ELSE @,
                !.projects_asked =
                    IF counted /\ ~ContainsUnverified(current_topic) THEN @ + 1 ELSE @,
                !.current_topic = IF moving_on THEN NoTopic ELSE current_topic]

\* One call of the earlier agent's process()
LegacyTurn(cv_id) ==
    /\ session_store[cv_id].unverified_asked + session_store[cv_id].projects_asked
           < MaxLegacyAsked
    /\ \E moving_on \in BOOLEAN, llm_ok \in BOOLEAN :
       \E context \in {session_store[cv_id]} :
        /\ session_store' = Put(cv_id, LegacyProcess(context, moving_on, llm_ok))
        /\ last' = [cv_id |-> cv_id, agent |-> "InterviewerAgent", ok |-> llm_ok,
                    moving_on |-> llm_ok /\ moving_on,
                    selecting |-> context.state = "INTERVIEW_START"
                                  \/ context.current_topic = NoTopic,
                    legacy_pick |->
                        LegacyPickUnverified(context.unverified_skills,
                                             context.unverified_asked,
                                             context.projects_asked),
                    strict_pick |->
                        PickUnverified(context.unverified_skills,
                                       context.unverified_asked,
                                       context.projects_asked)]
        /\ UNCHANGED <<db, pending>>

NextLegacy == \E cv_id \in CvIds : LegacyTurn(cv_id)

SpecLegacy == InitInterviewer /\ [][NextLegacy]_vars

-----------------------------------------------------------------------------
(* The research turn with its collaborators: verify_link computed from what  *)
(* the search provider answers, _perform_deep_analysis from the repositories *)
(* found and the reply of the analysis chain                                 *)

\* What the provider does on a verify_link call.  error: the request or the
\* decoding of a response raises; match: the first search names the candidate;
\* fallback_match: only the site: search finds the link; no_match: neither
ProviderAnswers == {"error", "match", "fallback_match", "no_match"}

\* The answers a call can meet: the provider is asked only past the guard of
\* verify_link, and only by a call that is made
AnswersFor(called, api_key, link, name) ==
    IF called /\ api_key /\ link # "none" /\ name # "" THEN ProviderAnswers ELSE {"unasked"}

\* Variant: verify_link without its try/except
VerifyLink_NoCatch(api_key, link, name, answer) ==
    IF ~api_key \/ link = "none" \/ name = ""
    THEN [raised |-> FALSE, value |-> FALSE]
    ELSE [raised |-> answer = "error",
          value |-> answer \in {"match", "fallback_match"}]

\* SerperService.verify_link: the value returned and whether an exception
\* leaves the call
VerifyLink(api_key, link, name, answer) ==
    IF ~api_key \/ link = "none" \/ name = ""
    THEN [raised |-> FALSE, value |-> FALSE]
    ELSE CASE answer = "error" -> [raised |-> FALSE, value |-> FALSE]
           [] answer = "match" -> [raised |-> FALSE, value |-> TRUE]
           [] answer = "fallback_match" -> [raised |-> FALSE, value |-> TRUE]
           [] OTHER -> [raised |-> FALSE, value |-> FALSE]

\* What get_github_repos may return
Repos == SeqsUpTo(AnalysedProjects, MaxAnalysed)

\* What the analysis chain may do: raise (the LLM call fails or its output is
\* not the JSON asked for), or return the parsed lists
Replies ==
    {[ok |-> FALSE, unverified_skills |-> <<>>, discovered_projects |-> <<>>]}
    \cup [ok : {TRUE},
          unverified_skills : SeqsUpTo(AnalysedUnverified, MaxAnalysed),
          discovered_projects : SeqsUpTo(AnalysedProjects, MaxAnalysed)]

\* Variant: a failed analysis returns no projects
PerformDeepAnalysis_NoFallback(github, repos, reply) ==
    LET real_projects == IF NoLink(github) THEN <<>> ELSE repos
    IN  IF reply.ok
        THEN [unverified |-> reply.unverified_skills,
              projects |-> IF reply.discovered_projects = <<>> /\ real_projects # <<>>
                           THEN real_projects ELSE reply.discovered_projects]
        ELSE [unverified |-> <<>>, projects |-> <<>>]

\* ResearchAgent._perform_deep_analysis: the unverified skills and the
\* projects it returns
PerformDeepAnalysis(github, repos, reply) ==
    LET real_projects == IF NoLink(github) THEN <<>> ELSE repos
    IN  IF reply.ok
        THEN [unverified |-> reply.unverified_skills,
              projects |-> IF reply.discovered_projects = <<>> /\ real_projects # <<>>
                           THEN real_projects ELSE reply.discovered_projects]
        ELSE [unverified |-> <<>>, projects |-> real_projects]

\* The name process() hands to verify_link: the resume's, or the default
CandidateName(cv_data) == IF cv_data.name = "" THEN "candidate" ELSE cv_data.name

\* The GitHub link process() hands to _perform_deep_analysis
ResearchGithub(context, u, v) ==
    IF ~u.skip /\ u.github /\ v.msg_github THEN "chat-url" ELSE context.cv_data.github

\* The verify_link calls process() makes for the message u
VerifyCalled(context, u) ==
    [cv_github |-> ~NoLink(context.cv_data.github) /\ ~context.github_verified,
     cv_linkedin |-> ~NoLink(context.cv_data.linkedin) /\ ~context.linkedin_verified,
     msg_github |-> ~u.skip /\ u.github,
     msg_linkedin |-> ~u.skip /\ u.linkedin]

NotCalled == [answer |-> "", value |-> FALSE]

InitResearch ==
    /\ db \in [CvIds -> [skills : {<<NameK>>},
                         github : {"none", "cv-url"},
                         linkedin : {"none", "cv-url"},
                         name : {"", "Jane Doe"}]]
    /\ session_store = [c \in {} |-> NoTurn]
    /\ last = NoTurn
    /\ pending = NoPending

\* A chat turn routed to the research agent; the log keeps the flags at the
\* start of the turn, the provider's answer and verify_link's value for each
\* call made, the repositories found and how the analysis chain ended
Research(cv_id) ==
    /\ TurnsOf(cv_id, "ResearchAgent") < MaxResearch
    /\ \E context \in {SessionOf(cv_id)} :
       \E u \in RoutedTo(cv_id, "ResearchAgent"), api_key \in BOOLEAN,
          name \in {CandidateName(context.cv_data)} :
       \E called \in {VerifyCalled(context, u)} :
       \E a1 \in AnswersFor(called.cv_github, api_key, context.cv_data.github, name),
          a2 \in AnswersFor(called.cv_linkedin, api_key, context.cv_data.linkedin, name),
          a3 \in AnswersFor(called.msg_github, api_key, "chat-url", name),
          a4 \in AnswersFor(called.msg_linkedin, api_key, "chat-url", name) :
       \E calls \in {[cv_github |-> VerifyLink(api_key, context.cv_data.github, name, a1),
                      cv_linkedin |-> VerifyLink(api_key, context.cv_data.linkedin, name, a2),
                      msg_github |-> VerifyLink(api_key, "chat-url", name, a3),
                      msg_linkedin |-> VerifyLink(api_key, "chat-url", name, a4)]} :
       \E v \in {[k \in DOMAIN calls |-> calls[k].value]},
          repos \in Repos, reply \in Replies :
       \E analysis \in {PerformDeepAnalysis(ResearchGithub(context, u, v), repos, reply)} :
       \E r \in {ResearchProcess(context, u, v, analysis)} :
        LET answers == [cv_github |-> a1, cv_linkedin |-> a2,
                        msg_github |-> a3, msg_linkedin |-> a4]
            raised == \E k \in DOMAIN calls : called[k] /\ calls[k].raised
            routed == [r.context EXCEPT
                         !.state = IF r.next_state # "" THEN r.next_state ELSE @]
        IN  /\ session_store' =
                   Put(cv_id, IF raised THEN context
                              ELSE WithTurn(routed, "ResearchAgent"))
            /\ last' =
                   [cv_id |-> cv_id, agent |-> "ResearchAgent", ok |-> ~raised,
                    api_key |-> api_key, skip |-> u.skip,
                    verified_before |-> [github |-> context.github_verified,
                                         linkedin |-> context.linkedin_verified],
                    calls |-> [k \in DOMAIN calls |->
                                  IF called[k]
                                  THEN [answer |-> answers[k], value |-> calls[k].value]
                                  ELSE NotCalled],
                    analysed |-> r.analysed,
                    repos |-> IF r.analysed THEN repos ELSE <<>>,
                    reply_ok |-> r.analysed => reply.ok]
            /\ UNCHANGED <<db, pending>>

\* verify_link on its own, for every link and name.  No session state enters
\* the function, so it is applied while no session exists
VerifyLinkCall ==
    /\ DOMAIN session_store = {}
    /\ \E api_key \in BOOLEAN, link \in {"none", "cv-url", "chat-url"},
       name \in {"", "candidate", "Jane Doe"} :
      \E answer \in AnswersFor(TRUE, api_key, link, name) :
        LET call == VerifyLink(api_key, link, name, answer)
        IN  /\ last' = [cv_id |-> "", agent |-> "verify_link", ok |-> ~call.raised,
                        api_key |-> api_key, link |-> link, name |-> name,
                        answer |-> answer, value |-> call.value]
            /\ UNCHANGED <<db, session_store, pending>>

NextResearch ==
    \/ \E cv_id \in CvIds : Research(cv_id)
    \/ VerifyLinkCall

SpecResearch == InitResearch /\ [][NextResearch]_vars

-----------------------------------------------------------------------------
(* Overlapping calls of process() on one session.  chat_with_agent is a     *)
(* coroutine and takes no lock: while one request is suspended in            *)
(* llm.ainvoke the event loop runs the next request for the same cv_id on    *)
(* the same context dict and the same covered_topics list.                   *)

MaxInFlight == 2

InitConcurrent ==
    /\ db \in [CvIds -> [skills : SkillLists,
                         github : {"N/A"}, linkedin : {"N/A"}]]
    /\ \E a \in Analyses :
           session_store =
               [c \in CvIds |-> InterviewSession(db[c], a.unverified, a.projects)]
    /\ last = NoTurn
    /\ pending = NoPending

\* process() from its entry to the await: the locals are computed from the
\* stored context, which is left as the code has written it by then
BeginProcess(cv_id) ==
    /\ Cardinality(pending.open) < MaxInFlight
    /\ pending.open # {} => Len(pending.started) < MaxInFlight
    /\ \E u \in InterviewerInputs :
        LET context == session_store[cv_id]
            loc == InterviewerLocals(context, u.unknown)
            call(id) == [id |-> id, u |-> u, context |-> context, loc |-> loc]
        IN  /\ session_store' = Put(cv_id, InterviewerBeforeLLM(context, loc))
            /\ pending' =
                   IF pending.open = {}
                   THEN [base |-> context, started |-> <<u.unknown>>,
                         open |-> {call(1)}]
                   ELSE [pending EXCEPT
                            !.started = Append(@, u.unknown),
                            !.open = @ \cup {call(Len(pending.started) + 1)}]
            /\ UNCHANGED <<db, last>>

\* process() from the return of the await: the trackers are written from the
\* call's locals; covered_topics is the list object every call appends to, so
\* writing it back stores the list as it is by now
FinishProcess(cv_id) ==
    \E r \in pending.open :
        LET context == session_store[cv_id]
        IN  /\ session_store' =
                   Put(cv_id, [InterviewerAfterLLM(context, r.loc) EXCEPT
                                  !.covered_topics = context.covered_topics])
            /\ pending' = [pending EXCEPT !.open = @ \ {r}]
            /\ last' = TurnLog(cv_id, "InterviewerAgent", TRUE, r.u, r.context, r.loc)
            /\ UNCHANGED db

NextConcurrent ==
    \E cv_id \in CvIds : BeginProcess(cv_id) \/ FinishProcess(cv_id)

SpecConcurrent == InitConcurrent /\ [][NextConcurrent]_vars

-----------------------------------------------------------------------------
(* Two sessions in one session store: cv1 has reached the interview (its    *)
(* candidate skipped the links, so nothing was analysed), cv2 has not sent   *)
(* its first message yet                                                     *)

SessionIds == {"cv1", "cv2"}

MaxSessionHistory == 6

InitSessions ==
    /\ db \in [SessionIds -> CvRecords]
    /\ db["cv1"].github = "none"
    /\ session_store =
           [c \in {"cv1"} |->
               InterviewSession([db[c] EXCEPT !.github = "N/A"], <<>>, <<>>)]
    /\ last = NoTurn
    /\ pending = NoPending

NextSessions ==
    \E cv_id \in SessionIds :
        /\ Len(SessionOf(cv_id).history) < MaxSessionHistory
        /\ \/ ChatGreeting(cv_id)
           \/ ChatResearch(cv_id)
           \/ ChatKPI(cv_id)
           \/ ChatInterviewer(cv_id)
           \/ ChatScoring(cv_id)

SpecSessions == InitSessions /\ [][NextSessions]_vars

-----------------------------------------------------------------------------
(* Properties of the topic scheduling, checked under SpecInterviewer *)

Sessions == DOMAIN session_store

\* The last turn was an interviewer turn of session cv_id
InterviewerTurnOf(cv_id, log) == log.cv_id = cv_id /\ log.agent = "InterviewerAgent"

\* The name a topic label was built from: the label without its category prefix
LabelName(topic) ==
    IF HasPrefix(topic, UnverifiedPrefix)
    THEN SubSeq(topic, Len(UnverifiedPrefix) + 1, Len(topic))
    ELSE IF HasPrefix(topic, ProjectPrefix)
    THEN SubSeq(topic, Len(ProjectPrefix) + 1, Len(topic))
    ELSE IF HasPrefix(topic, VerifiedSkillPrefix)
    THEN SubSeq(topic, Len(VerifiedSkillPrefix) + 1, Len(topic))
    ELSE topic

\* C1: an "Unverified: X" topic is activated only when the selector reads
\* unverified_asked < len(unverified_skills) and projects_asked ==
\* unverified_asked * 2, X is unverified_skills[unverified_asked], and a
\* completed turn stores exactly the counters the selector read.
C1_UnverifiedOnlyAtRatio ==
    \A cv_id \in Sessions :
        LET c == session_store[cv_id]
        IN  (/\ InterviewerTurnOf(cv_id, last)
             /\ last.selecting
             /\ HasPrefix(last.selected, UnverifiedPrefix))
            => /\ last.unverified_asked < Len(c.unverified_skills)
               /\ last.projects_asked = last.unverified_asked * 2
               /\ last.selected =
                      UnverifiedPrefix \o c.unverified_skills[last.unverified_asked + 1]
               /\ c.current_topic = last.selected
               /\ last.ok => /\ c.unverified_asked = last.unverified_asked
                             /\ c.projects_asked = last.projects_asked

\* C1 witness: the second unverified skill is activated after two projects
C1_Witness ==
    \E cv_id \in Sessions :
        /\ InterviewerTurnOf(cv_id, last)
        /\ last.ok /\ last.selecting
        /\ HasPrefix(last.selected, UnverifiedPrefix)
        /\ last.unverified_asked = 1
        /\ last.projects_asked = 2

\* C2: the selector never activates a topic whose normalized name is already
\* in covered_topics at the moment of activation.
C2_NeverActivatesCovered ==
    \A cv_id \in Sessions :
        (/\ InterviewerTurnOf(cv_id, last)
         /\ last.selecting
         /\ last.selected # NoTopic)
        => Normalize(LabelName(last.selected))
               \notin NormSet(session_store[cv_id].covered_topics)

\* C3: in every reachable state projects_asked <= unverified_asked * 2 + 2.
C3_RatioBound ==
    \A cv_id \in Sessions :
        session_store[cv_id].projects_asked
            <= session_store[cv_id].unverified_asked * 2 + 2

\* C4: retiring a topic on a forced transition appends its name once and
\* counts it in exactly one category when its normalized name is not yet
\* covered, and changes neither covered_topics nor a counter when it is; a
\* completed turn stores the ledger so computed.
C4_RetireIdempotent ==
    [][\A cv_id \in Sessions :
          (InterviewerTurnOf(cv_id, last') /\ last'.force_transition)
          => LET c == session_store[cv_id]
                 d == session_store'[cv_id]
             IN  /\ IF Normalize(last'.topic_name) \notin NormSet(c.covered_topics)
                    THEN /\ d.covered_topics = Append(c.covered_topics, last'.topic_name)
                         /\ \/ /\ last'.unverified_asked = c.unverified_asked + 1
                               /\ last'.projects_asked = c.projects_asked
                            \/ /\ last'.unverified_asked = c.unverified_asked
                               /\ last'.projects_asked = c.projects_asked + 1
                    ELSE /\ d.covered_topics = c.covered_topics
                         /\ last'.unverified_asked = c.unverified_asked
                         /\ last'.projects_asked = c.projects_asked
                 /\ last'.ok => /\ d.unverified_asked = last'.unverified_asked
                                /\ d.projects_asked = last'.projects_asked
      ]_vars

\* C4 witness: a forced transition away from a topic whose normalized name
\* was covered before (the name is not the entry appended last)
C4_Witness ==
    \E cv_id \in Sessions :
        LET covered == session_store[cv_id].covered_topics
        IN  /\ InterviewerTurnOf(cv_id, last)
            /\ last.ok /\ last.force_transition
            /\ Normalize(last.topic_name) \in NormSet(covered)
            /\ covered[Len(covered)] # last.topic_name

\* C5: without a disengagement phrase an unverified-skill topic is force-retired
\* exactly on the turn that increments topic_turns past 2, a project or
\* verified-skill topic exactly on the turn that increments it past 3, and at
\* the end of every turn topic_turns is at most that limit (the limit of a
\* topic is that of the branch that activated it: 2 after "Unverified: ",
\* else 3).
C5_TurnLimit ==
    [][\A cv_id \in Sessions :
          LET c == session_store[cv_id]
              d == session_store'[cv_id]
              ClaimedMaxTurns(topic) ==
                  IF HasPrefix(topic, UnverifiedPrefix) THEN 2 ELSE 3
          IN  /\ (/\ InterviewerTurnOf(cv_id, last')
                  /\ c.current_topic # NoTopic
                  /\ ~last'.unknown)
                 => (last'.force_transition
                        <=> c.topic_turns + 1 > ClaimedMaxTurns(c.current_topic))
              /\ d.current_topic # NoTopic
                 => d.topic_turns <= ClaimedMaxTurns(d.current_topic)
      ]_vars

\* C6: a disengagement phrase while a topic is active forces the transition
\* whatever topic_turns is: the topic is retired, the selector runs in the same
\* turn, and a completed turn ends on the selector's topic with topic_turns = 1.
C6_DisengagementForces ==
    [][\A cv_id \in Sessions :
          LET c == session_store[cv_id]
              d == session_store'[cv_id]
          IN  (/\ InterviewerTurnOf(cv_id, last')
               /\ last'.unknown
               /\ c.current_topic # NoTopic)
              => /\ last'.force_transition
                 /\ last'.topic_name = LastSegment(c.current_topic)
                 /\ Normalize(last'.topic_name) \in NormSet(d.covered_topics)
                 /\ last'.selecting
                 /\ last'.ok => /\ d.topic_turns = 1
                                /\ d.current_topic = last'.selected
      ]_vars

\* C6 witness: the phrase comes on the first turn after the opening question
\* (topic_turns = 1 before the increment)
C6_Witness ==
    \E cv_id \in Sessions :
        /\ InterviewerTurnOf(cv_id, last)
        /\ last.ok /\ last.unknown /\ last.force_transition
        /\ last.turns = 2

\* C7: after a completed turn in which the user says "skip" while topic T is
\* active, T's name is covered, the counter of T's category is one higher, T is
\* no longer the current topic and the topic selected next has another
\* normalized name.
C7_SkipRetiresTopic ==
    [][\A cv_id \in Sessions :
          LET c == session_store[cv_id]
              d == session_store'[cv_id]
              name == LabelName(c.current_topic)
          IN  (/\ InterviewerTurnOf(cv_id, last')
               /\ last'.ok /\ last'.unknown
               /\ c.current_topic # NoTopic)
              => /\ Normalize(name) \in NormSet(d.covered_topics)
                 /\ IF HasPrefix(c.current_topic, UnverifiedPrefix)
                    THEN /\ d.unverified_asked = c.unverified_asked + 1
                         /\ d.projects_asked = c.projects_asked
                    ELSE /\ d.unverified_asked = c.unverified_asked
                         /\ d.projects_asked = c.projects_asked + 1
                 /\ d.current_topic # c.current_topic
                 /\ d.current_topic # NoTopic
                    => Normalize(LabelName(d.current_topic)) # Normalize(name)
      ]_vars

-----------------------------------------------------------------------------
(* Properties of the router and of the chat handler, checked under Spec *)

\* The topic ledger of a session
Ledger(c) ==
    <<c.current_topic, c.topic_turns, c.covered_topics,
      c.unverified_asked, c.projects_asked>>

\* C8: once a session's state is SCORING every later turn of the session is
\* dispatched to the scoring agent and the state stays SCORING.
C8_ScoringAbsorbing ==
    [][\A cv_id \in Sessions :
          session_store[cv_id].state = "SCORING"
          => /\ session_store'[cv_id].state = "SCORING"
             /\ last'.cv_id = cv_id => last'.agent = "ScoreAgent"
      ]_vars

\* C8 witness: a second scoring turn of a session has completed
C8_Witness ==
    \E cv_id \in Sessions :
        /\ session_store[cv_id].state = "SCORING"
        /\ last.cv_id = cv_id /\ last.agent = "ScoreAgent" /\ last.ok
        /\ TurnsOf(cv_id, "ScoreAgent") = 2

\* C9: a turn routed by state INTERVIEW_START or INTERVIEWING (not taken by the
\* greeting short-circuit) goes to the scoring agent alone, with state SCORING
\* and the ledger unchanged, when the message holds the finish phrase or
\* len(history) > 25, and otherwise to the interviewer alone, with state
\* INTERVIEWING afterwards.
C9_InterviewBranch ==
    [][\A cv_id \in Sessions :
          LET c == session_store[cv_id]
              d == session_store'[cv_id]
          IN  (/\ last'.cv_id = cv_id
               /\ c.state \in {"INTERVIEW_START", "INTERVIEWING"}
               /\ last'.agent # "GreetingBot")
              => IF last'.finish \/ Len(c.history) > HistoryCap
                 THEN /\ last'.agent = "ScoreAgent"
                      /\ d.state = "SCORING"
                      /\ Ledger(d) = Ledger(c)
                 ELSE /\ last'.agent = "InterviewerAgent"
                      /\ d.state = "INTERVIEWING"
      ]_vars

\* C9 witness: the history cap alone sends an interview turn to scoring
C9_Witness ==
    \E cv_id \in Sessions :
        /\ last.cv_id = cv_id /\ last.agent = "ScoreAgent"
        /\ last.capped /\ ~last.finish
        /\ session_store[cv_id].state = "SCORING"

\* C18: a turn dispatched to the greeting agent leaves state, the topic ledger,
\* the pools, the resume and the verification flags of the session as they
\* were, in whatever state the session is.
C18_GreetingIsDetour ==
    [][\A cv_id \in CvIds :
          LET c == SessionOf(cv_id)
              d == session_store'[cv_id]
          IN  (last'.cv_id = cv_id /\ last'.agent = "GreetingBot")
              => /\ d.state = c.state
                 /\ Ledger(d) = Ledger(c)
                 /\ d.unverified_skills = c.unverified_skills
                 /\ d.discovered_projects = c.discovered_projects
                 /\ d.cv_data = c.cv_data
                 /\ d.github_verified = c.github_verified
                 /\ d.linkedin_verified = c.linkedin_verified
                 /\ d.kpis = c.kpis
      ]_vars

\* C18 witness: a greeting answered after the research turn has moved the
\* session on to KPI_CALCULATION
C18_Witness ==
    \E cv_id \in Sessions :
        /\ last.cv_id = cv_id /\ last.agent = "GreetingBot" /\ last.ok
        /\ session_store[cv_id].state = "KPI_CALCULATION"

\* C19: state only moves forward in the order START/RESEARCH, KPI_CALCULATION,
\* INTERVIEW_START, INTERVIEWING, SCORING; a research turn leaves it or adopts
\* KPI_CALCULATION, a completed KPI turn moves it to INTERVIEW_START.
C19_StateMovesForward ==
    [][\A cv_id \in CvIds :
          LET c == SessionOf(cv_id)
              d == session_store'[cv_id]
              stage(state) ==
                  CASE state \in {"START", "RESEARCH"} -> 0
                    [] state = "KPI_CALCULATION" -> 1
                    [] state = "INTERVIEW_START" -> 2
                    [] state = "INTERVIEWING" -> 3
                    [] state = "SCORING" -> 4
                    [] OTHER -> -1
          IN  last'.cv_id = cv_id
              => /\ stage(d.state) >= stage(c.state)
                 /\ stage(d.state) >= 0
                 /\ last'.agent = "ResearchAgent"
                    => d.state \in {c.state, "KPI_CALCULATION"}
                 /\ (last'.agent = "KPIAgent" /\ last'.ok)
                    => d.state = "INTERVIEW_START"
      ]_vars

\* C19 witness: a session that has gone through every stage up to SCORING
C19_Witness ==
    \E cv_id \in Sessions :
        /\ session_store[cv_id].state = "SCORING"
        /\ TurnsOf(cv_id, "ResearchAgent") >= 1
        /\ TurnsOf(cv_id, "KPIAgent") >= 1
        /\ TurnsOf(cv_id, "InterviewerAgent") >= 1
        /\ TurnsOf(cv_id, "ScoreAgent") >= 1

\* C10: a turn whose LLM call fails leaves the stored session as it was.
C10_FailedTurnAtomic ==
    [][\A cv_id \in Sessions :
          (last'.cv_id = cv_id /\ ~last'.ok)
          => session_store'[cv_id] = session_store[cv_id]
      ]_vars

\* C24: a scoring turn of a session already in state SCORING is given the
\* history the previous scoring turn was given and changes no field of the
\* session: the session after the turn is the session before it.
C24_ScoringIdempotent ==
    [][\A cv_id \in Sessions :
          (/\ session_store[cv_id].state = "SCORING"
           /\ last'.cv_id = cv_id /\ last'.agent = "ScoreAgent")
          => session_store'[cv_id] = session_store[cv_id]
      ]_vars

\* C25: history is append-only.  A completed turn appends exactly two entries
\* to the history of its session, a failed turn appends none, no turn removes
\* or rewrites an entry, and the length of history is always even.
C25_HistoryAppendOnly ==
    [][\A cv_id \in CvIds :
          LET h == SessionOf(cv_id).history
              g == SessionOf(cv_id)'.history
          IN  /\ Len(g) % 2 = 0
              /\ Len(g) >= Len(h)
              /\ SubSeq(g, 1, Len(h)) = h
              /\ (last'.cv_id = cv_id /\ last'.ok) => Len(g) = Len(h) + 2
              /\ (last'.cv_id = cv_id /\ ~last'.ok) => g = h
      ]_vars

\* C25 witness: a failed interviewer turn after four completed turns
C25_Witness ==
    \E cv_id \in Sessions :
        /\ last.cv_id = cv_id /\ last.agent = "InterviewerAgent" /\ ~last.ok
        /\ Len(session_store[cv_id].history) = 8
        /\ TurnsOf(cv_id, "InterviewerAgent") = 2

\* C30: once a session's state is INTERVIEW_START, INTERVIEWING or SCORING its
\* history holds at least four entries, no message is routed to the greeting
\* agent and no turn of the session is dispatched to it.
C30_NoGreetingInInterview ==
    [][\A cv_id \in Sessions :
          session_store[cv_id].state \in {"INTERVIEW_START", "INTERVIEWING", "SCORING"}
          => /\ Len(session_store[cv_id].history) >= 4
             /\ RoutedTo(cv_id, "GreetingBot") = {}
             /\ last'.cv_id = cv_id => last'.agent # "GreetingBot"
      ]_vars

\* C30 witness: an interviewer turn has run in a session where a message
\* holding a greeting word is routed to the interviewer
C30_Witness ==
    \E cv_id \in Sessions :
        /\ session_store[cv_id].state = "INTERVIEWING"
        /\ last.cv_id = cv_id /\ last.agent = "InterviewerAgent" /\ last.unknown
        /\ \E u \in RoutedTo(cv_id, "InterviewerAgent") : u.greet /\ u.unknown

\* C31 as stated: a session that has reached the interview is in state
\* SCORING once the turn following its 13th completed turn has run.
C31_ScoringByTurn14 ==
    \A cv_id \in Sessions :
        (/\ session_store[cv_id].state \in {"INTERVIEW_START", "INTERVIEWING", "SCORING"}
         /\ Len(session_store[cv_id].history) >= 28)
        => session_store[cv_id].state = "SCORING"

\* C31, amended: when every turn completes and the finish phrase is never
\* said, the interviewer is never dispatched with len(history) > 25; a session
\* in INTERVIEW_START or INTERVIEWING whose history holds more than 25 entries
\* is scored on its next turn, and it holds more than 26 entries in those
\* states only right after the KPI turn that opened the interview.  So the
\* state is SCORING after the turn following the 13th completed turn, or, when
\* the KPI turn comes later than that, after the turn following the KPI turn.
C31_BoundedInterview ==
    [][\A cv_id \in Sessions :
          LET c == session_store[cv_id]
              d == session_store'[cv_id]
              interview == {"INTERVIEW_START", "INTERVIEWING"}
          IN  last'.cv_id = cv_id
              => /\ (c.state \in interview /\ Len(c.history) > HistoryCap)
                    => (last'.agent = "ScoreAgent" /\ d.state = "SCORING")
                 /\ last'.agent = "InterviewerAgent" => Len(c.history) <= HistoryCap
                 /\ (d.state \in interview /\ Len(d.history) > HistoryCap + 1)
                    => last'.agent = "KPIAgent"
                 /\ d.state = "SCORING" => Len(c.history) > HistoryCap
      ]_vars

\* C31 witness: thirteen turns have completed, eleven of them interviewer
\* turns, and the fourteenth was dispatched to the scoring agent
C31_Witness ==
    \E cv_id \in Sessions :
        /\ last.cv_id = cv_id /\ last.agent = "ScoreAgent" /\ last.capped
        /\ session_store[cv_id].state = "SCORING"
        /\ Len(session_store[cv_id].history) = 28
        /\ TurnsOf(cv_id, "InterviewerAgent") = 11

-----------------------------------------------------------------------------
(* Frame properties of the interviewer turn *)

\* C26: an interviewer turn that starts with no active topic takes no
\* transition decision, whatever the message says: covered_topics,
\* unverified_asked and projects_asked are left as they were, and the topic
\* selection runs.
C26_NoTopicNoTransition ==
    [][\A cv_id \in Sessions :
          LET c == session_store[cv_id]
              d == session_store'[cv_id]
          IN  (c.current_topic = NoTopic /\ InterviewerTurnOf(cv_id, last'))
              => /\ ~last'.force_transition
                 /\ last'.selecting
                 /\ d.covered_topics = c.covered_topics
                 /\ d.unverified_asked = c.unverified_asked
                 /\ d.projects_asked = c.projects_asked
      ]_vars

\* C26 witness: a disengagement phrase on a later turn that began without a
\* topic (selection ran, nothing was retired, topics had been covered before)
C26_Witness ==
    \E cv_id \in Sessions :
        /\ InterviewerTurnOf(cv_id, last) /\ last.ok
        /\ last.unknown /\ last.selecting /\ ~last.force_transition
        /\ session_store[cv_id].covered_topics # <<>>

\* C27: an interviewer turn that starts with an active topic and forces no
\* transition changes topic_turns alone, by +1 when the turn completes;
\* current_topic, covered_topics, the counters, the state and every other
\* field are left as they were (a failed such turn changes nothing).
C27_ContinueTurnFrame ==
    [][\A cv_id \in Sessions :
          LET c == session_store[cv_id]
              d == session_store'[cv_id]
          IN  (/\ c.current_topic # NoTopic
               /\ InterviewerTurnOf(cv_id, last')
               /\ ~last'.force_transition)
              => /\ ~last'.selecting
                 /\ d = [c EXCEPT !.topic_turns = IF last'.ok THEN @ + 1 ELSE @]
      ]_vars

\* C27 witness: the third turn on a project, a follow-up within the limit
C27_Witness ==
    \E cv_id \in Sessions :
        /\ InterviewerTurnOf(cv_id, last) /\ last.ok
        /\ ~last.selecting /\ ~last.force_transition /\ ~last.unknown
        /\ HasPrefix(session_store[cv_id].current_topic, ProjectPrefix)
        /\ session_store[cv_id].topic_turns = 3

-----------------------------------------------------------------------------
(* Invariants of the ledger and of the selector *)

\* C12: at the end of every interviewer turn, and at session creation,
\* current_topic is None if and only if topic_turns is 0.
C12_NoTopicIffZeroTurns ==
    \A cv_id \in Sessions :
        (session_store[cv_id].current_topic = NoTopic)
            <=> (session_store[cv_id].topic_turns = 0)

\* C13: covered_topics never holds two entries with the same normalized form.
C13_NoDuplicateCovered ==
    \A cv_id \in Sessions :
        LET covered == session_store[cv_id].covered_topics
        IN  \A i, j \in 1..Len(covered) :
                Normalize(covered[i]) = Normalize(covered[j]) => i = j

\* C13 witness: a topic was retired whose name is no entry of covered_topics
\* as written, though its normalized form is covered
C13_Witness ==
    \E cv_id \in Sessions :
        LET covered == session_store[cv_id].covered_topics
        IN  /\ InterviewerTurnOf(cv_id, last)
            /\ last.force_transition
            /\ last.topic_name \notin {covered[i] : i \in 1..Len(covered)}
            /\ Normalize(last.topic_name) \in NormSet(covered)

\* C14: unverified_asked never exceeds the size of the unverified pool.
C14_UnverifiedAskedBounded ==
    \A cv_id \in Sessions :
        session_store[cv_id].unverified_asked
            <= Len(session_store[cv_id].unverified_skills)

\* C15: the selector falls back to the generic topic-less prompt only when no
\* unverified skill remains unasked, every discovered project is covered and
\* every CV skill is in the unverified pool or covered.
C15_GenericOnlyWhenExhausted ==
    \A cv_id \in Sessions :
        LET c == session_store[cv_id]
            covered == NormSet(c.covered_topics)
        IN  (/\ InterviewerTurnOf(cv_id, last)
             /\ last.ok /\ last.selecting
             /\ last.selected = NoTopic)
            => /\ c.unverified_asked = Len(c.unverified_skills)
               /\ \A i \in 1..Len(c.discovered_projects) :
                      Normalize(c.discovered_projects[i]) \in covered
               /\ \A i \in 1..Len(c.cv_data.skills) :
                      Normalize(c.cv_data.skills[i])
                          \in covered \cup NormSet(c.unverified_skills)

C17_Cadence ==
    [][\A cv_id \in Sessions :
          LET c == session_store[cv_id]
              d == session_store'[cv_id]
              covered == NormSet(d.covered_topics)
              remains ==
                  \/ \E i \in 1..Len(d.discovered_projects) :
                         Normalize(d.discovered_projects[i]) \notin covered
                  \/ \E i \in 1..Len(d.cv_data.skills) :
                         Normalize(d.cv_data.skills[i])
                             \notin covered \cup NormSet(d.unverified_skills)
          IN  InterviewerTurnOf(cv_id, last')
              => /\ (c.state = "INTERVIEW_START" /\ c.unverified_skills # <<>>)
                    => last'.selected = UnverifiedPrefix \o c.unverified_skills[1]
                 /\ (/\ HasPrefix(c.current_topic, UnverifiedPrefix)
                     /\ last'.force_transition
                     /\ remains)
                    => ~HasPrefix(last'.selected, UnverifiedPrefix)
      ]_vars

-----------------------------------------------------------------------------
(* Properties of overlapping turns, checked under SpecConcurrent *)

\* The context two calls of process() leave when run one after the other
Serial(context, first_unknown, second_unknown) ==
    InterviewerProcess(
        InterviewerProcess(context, first_unknown, TRUE).context,
        second_unknown, TRUE).context

\* C11: when two requests of one session have overlapped and both have
\* returned, the ledger is the one that one of the two serial orders of the
\* two turns produces from the session as it was before them.
C11_TurnsSerialized ==
    \A cv_id \in Sessions :
        (pending.open = {} /\ Len(pending.started) = 2)
        => \/ Ledger(session_store[cv_id]) =
                  Ledger(Serial(pending.base, pending.started[1], pending.started[2]))
           \/ Ledger(session_store[cv_id]) =
                  Ledger(Serial(pending.base, pending.started[2], pending.started[1]))

-----------------------------------------------------------------------------
(* Properties of the session store, checked under SpecSessions *)

\* C20: a turn of one session changes no field of any other session, creates
\* no other session and leaves the other sessions' resumes as they were.
C20_SessionsIndependent ==
    [][\A cv_id \in SessionIds :
          last'.cv_id # cv_id
          => /\ db'[cv_id] = db[cv_id]
             /\ IF cv_id \in DOMAIN session_store
                THEN /\ cv_id \in DOMAIN session_store'
                     /\ session_store'[cv_id] = session_store[cv_id]
                ELSE cv_id \notin DOMAIN session_store'
      ]_vars

\* C20 witness: a turn of cv2 has completed while the session of cv1 is in
\* the interview, in another state than the session of cv2
C20_Witness ==
    /\ DOMAIN session_store = SessionIds
    /\ last.cv_id = "cv2" /\ last.ok
    /\ session_store["cv1"].state = "INTERVIEWING"
    /\ session_store["cv2"].state = "KPI_CALCULATION"

-----------------------------------------------------------------------------
(* Properties of the research turn *)

\* C21: when the analysis chain raises or its output cannot be parsed,
\* _perform_deep_analysis returns no unverified skill and the repositories
\* get_github_repos found (none when there is no GitHub link), and the turn
\* completes with the state KPI_CALCULATION
C21_AnalysisFailureFallsBack ==
    (last.agent = "ResearchAgent" /\ last.analysed /\ ~last.reply_ok) =>
        LET s == session_store[last.cv_id]
        IN  /\ last.ok
            /\ s.unverified_skills = <<>>
            /\ s.discovered_projects =
                   IF NoLink(s.cv_data.github) THEN <<>> ELSE last.repos
            /\ s.state = "KPI_CALCULATION"
            /\ Len(s.history) >= 2

C21_Witness ==
    /\ last.agent = "ResearchAgent" /\ last.analysed /\ ~last.reply_ok
    /\ last.repos # <<>>
    /\ session_store[last.cv_id].discovered_projects = last.repos
    /\ session_store[last.cv_id].state = "KPI_CALCULATION"

\* C22: verify_link never raises and returns false when the provider fails,
\* when the API key is missing and when the link or the name is empty; the
\* research turn sets a verified flag only when a call for that platform
\* returned true, and leaves it as it was otherwise
C22_VerifyLinkNeverRaises ==
    /\ last.agent = "verify_link" =>
           /\ last.ok
           /\ (~last.api_key \/ last.link = "none" \/ last.name = ""
               \/ last.answer = "error") => ~last.value
    /\ last.agent = "ResearchAgent" =>
           LET s == session_store[last.cv_id]
               c == last.calls
           IN  /\ last.ok
               /\ \A k \in DOMAIN c :
                      (c[k].answer \in {"error", "unasked"}) => ~c[k].value
               /\ s.github_verified =
                      (last.verified_before.github \/ c.cv_github.value
                       \/ c.msg_github.value)
               /\ s.linkedin_verified =
                      (last.verified_before.linkedin \/ c.cv_linkedin.value
                       \/ c.msg_linkedin.value)

C22_Witness ==
    /\ last.agent = "ResearchAgent" /\ last.ok
    /\ last.calls.cv_github.answer = "error"
    /\ last.calls.msg_linkedin.answer = "match"
    /\ ~session_store[last.cv_id].github_verified
    /\ session_store[last.cv_id].linkedin_verified

-----------------------------------------------------------------------------
(* Properties of the interviewer's LLM call *)

\* C23: every interviewer turn, whether it selects a topic, forces a
\* transition or continues the topic, makes exactly one LLM invocation; a
\* failed invocation is not tried again and the turn fails with it
C23_OneInvocation ==
    last.agent = "InterviewerAgent" =>
        /\ last.calls = 1
        /\ last.ok = last.outcomes[1]

C23_Witness ==
    /\ last.agent = "InterviewerAgent"
    /\ last.force_transition
    /\ last.outcomes = <<FALSE, TRUE>>
    /\ last.calls = 1
    /\ ~last.ok

-----------------------------------------------------------------------------
(* Properties of the category accounting *)

\* C28: after any sequence of completed interviewer turns from a fresh
\* session, unverified_asked + projects_asked equals len(covered_topics)
C28_CountersMatchCovered ==
    \A cv_id \in Sessions :
        session_store[cv_id].unverified_asked + session_store[cv_id].projects_asked
            = Len(session_store[cv_id].covered_topics)

\* C28 witness: a forced transition away from a topic whose name was already
\* covered has left the ledger as it was, with two topics counted
C28_Witness ==
    \E cv_id \in Sessions :
        /\ InterviewerTurnOf(cv_id, last) /\ last.force_transition
        /\ Normalize(last.topic_name) \in
               {Normalize(session_store[cv_id].covered_topics[i]) :
                    i \in 1..(Len(session_store[cv_id].covered_topics) - 1)}
        /\ session_store[cv_id].unverified_asked = 1
        /\ session_store[cv_id].projects_asked = 1

\* C29: the category of a topic is that of the selector branch that activated
\* it, whatever text its label holds.  A topic activated as "Project: ..." or
\* "Verified Skill: ..." is forced out on the turn limit only past 3 turns and
\* is counted in projects_asked alone; a topic activated as "Unverified: ..."
\* only past 2 turns and in unverified_asked alone.
C29_CategoryFollowsBranch ==
    [][\A cv_id \in Sessions :
          LET c == session_store[cv_id]
              d == session_store'[cv_id]
              unverified_branch == HasPrefix(c.current_topic, UnverifiedPrefix)
          IN  (InterviewerTurnOf(cv_id, last') /\ c.current_topic # NoTopic)
              => /\ (last'.force_transition /\ ~last'.unknown)
                    => c.topic_turns + 1 > (IF unverified_branch THEN 2 ELSE 3)
                 /\ (/\ last'.force_transition
                     /\ Len(d.covered_topics) = Len(c.covered_topics) + 1)
                    => /\ d.unverified_asked =
                              c.unverified_asked + (IF unverified_branch THEN 1 ELSE 0)
                       /\ d.projects_asked =
                              c.projects_asked + (IF unverified_branch THEN 0 ELSE 1)
      ]_vars

\* C32 as stated: a research turn whose message holds profile links none of
\* which verifies, and no skip phrase, returns no next_state, runs no deep
\* analysis, leaves state and the pools unchanged and sets neither
\* verification flag.
C32_FailedLinksChangeNothing ==
    [][\A cv_id \in CvIds :
          LET c == SessionOf(cv_id)
              d == session_store'[cv_id]
              m == last'.calls
          IN  (/\ last'.cv_id = cv_id /\ last'.agent = "ResearchAgent"
               /\ m.msg_github.answer # "" \/ m.msg_linkedin.answer # ""
               /\ ~m.msg_github.value /\ ~m.msg_linkedin.value)
              => /\ ~last'.analysed
                 /\ d.state = c.state
                 /\ d.unverified_skills = c.unverified_skills
                 /\ d.discovered_projects = c.discovered_projects
                 /\ d.github_verified = c.github_verified
                 /\ d.linkedin_verified = c.linkedin_verified
      ]_vars

\* C32, amended: such a turn returns no next_state, runs no deep analysis and
\* leaves state, the pools and the stored links unchanged; a verification flag
\* changes in it only when the link stored for that platform verifies at the
\* start of the turn.  A research turn advances the state to KPI_CALCULATION
\* only on a skip phrase, on a link of the message verifying, or when both
\* stored links are present and verified.
C32_FailedLinksKeepState ==
    [][\A cv_id \in CvIds :
          LET c == SessionOf(cv_id)
              d == session_store'[cv_id]
              m == last'.calls
          IN  (last'.cv_id = cv_id /\ last'.agent = "ResearchAgent")
              => /\ (/\ m.msg_github.answer # "" \/ m.msg_linkedin.answer # ""
                     /\ ~m.msg_github.value /\ ~m.msg_linkedin.value)
                    => /\ ~last'.analysed
                       /\ d.state = c.state
                       /\ d.unverified_skills = c.unverified_skills
                       /\ d.discovered_projects = c.discovered_projects
                       /\ d.cv_data = c.cv_data
                       /\ d.github_verified = (c.github_verified \/ m.cv_github.value)
                       /\ d.linkedin_verified = (c.linkedin_verified \/ m.cv_linkedin.value)
                 /\ d.state # c.state
                    => /\ d.state = "KPI_CALCULATION"
                       /\ \/ last'.skip
                          \/ m.msg_github.value \/ m.msg_linkedin.value
                          \/ /\ ~NoLink(d.cv_data.github) /\ d.github_verified
                             /\ ~NoLink(d.cv_data.linkedin) /\ d.linkedin_verified
      ]_vars

\* C32 witness: the LinkedIn link of the message failed while the GitHub link
\* of the resume verified in the same turn; the state has not advanced
C32_Witness ==
    /\ last.agent = "ResearchAgent" /\ ~last.skip
    /\ last.calls.msg_linkedin.answer = "no_match"
    /\ last.calls.cv_github.value
    /\ ~last.analysed
    /\ session_store[last.cv_id].state = "START"
    /\ session_store[last.cv_id].github_verified
    /\ ~session_store[last.cv_id].linkedin_verified

-----------------------------------------------------------------------------
(* The earlier agent against the current one *)

\* C33: in every state reachable from a fresh session under the earlier
\* agent, projects_asked <= unverified_asked * 2 holds whenever
\* unverified_asked < len(unverified_skills), so its guard picks an unverified
\* skill exactly when the strict guard of the current agent would
C33_GuardsAgree ==
    /\ \A cv_id \in Sessions :
           LET c == session_store[cv_id]
           IN  /\ c.unverified_asked < Len(c.unverified_skills)
                  => c.projects_asked <= c.unverified_asked * 2
               /\ LegacyPickUnverified(c.unverified_skills, c.unverified_asked,
                                       c.projects_asked)
                  = PickUnverified(c.unverified_skills, c.unverified_asked,
                                   c.projects_asked)
    /\ (last.agent = "InterviewerAgent" /\ last.selecting)
       => last.legacy_pick = last.strict_pick

\* C33 witness: after one unverified skill and two projects the selection has
\* picked the second unverified skill, both guards true
C33_Witness ==
    \E cv_id \in Sessions :
        /\ last.agent = "InterviewerAgent" /\ last.ok /\ last.selecting
        /\ last.legacy_pick /\ last.strict_pick
        /\ session_store[cv_id].unverified_asked = 1
        /\ session_store[cv_id].projects_asked = 2
        /\ HasPrefix(session_store[cv_id].current_topic, UnverifiedPrefix)

-----------------------------------------------------------------------------
(* The LangGraph interview graph (src/graph.py): one run of the compiled    *)
(* graph from its entry point.  session_store holds the AgentState of the   *)
(* thread, pending the node the run executes next, last the node that ran.  *)
(* Of the messages the nodes read the last one and whether there is at most *)
(* one; the calls of the LLM and of the tools are taken to return.          *)

MaxGraphPool == 1
MaxGraphAsked == 1

ReadyToAnalyze == <<"INTERNAL_", "READY_TO_ANALYZE">>
InternalResearchComplete == <<"INTERNAL_", "RESEARCH_COMPLETE">>
SessionIsComplete == <<"interview", " ", "session", " ", "is", " ", "complete">>
UserGreeting == <<"Hi", " ", "candidate", " ">>
TechnicalDepth == <<"Technical", " ", "Depth">>
CVProject == <<"CV_Project">>

\* needle in s
Within(needle, s) ==
    \E i \in 0..(Len(s) - Len(needle)) : SubSeq(s, i + 1, i + Len(needle)) = needle

\* A message: its class, whether it carries tool calls, its content
Message(type, tool_calls, content) ==
    [type |-> type, tool_calls |-> tool_calls, content |-> content]

\* messages + [m] under operator.add, the length counted up to 2
AddMessage(messages, m) ==
    [n |-> IF messages.n < 2 THEN messages.n + 1 ELSE 2, last |-> m]

\* should_continue: the route out of research and out of interviewer
should_continue(state) ==
    LET last_message == state.messages.last
        content == last_message.content
    IN  IF last_message.tool_calls THEN "tools"
        ELSE IF Within(ReadyToAnalyze, content) \/ Within(InternalResearchComplete, content)
        THEN "research"
        ELSE IF Within(<<"RESEARCH_COMPLETE">>, content) \/ Within(<<"SKIP_RESEARCH">>, content)
        THEN "interviewer"
        ELSE IF Within(SessionIsComplete, Lower(content)) THEN "END"
        ELSE IF last_message.type = "ai"
        THEN IF Strip(content) = <<>> \/ Within(<<"INTERNAL_">>, content)
             THEN "interviewer" ELSE "END"
        ELSE "interviewer"

\* What the analysis call can answer: JSON with the two lists (either may be
\* missing), or text json.loads rejects
AnalysisReplies ==
    {r \in [parsed : BOOLEAN, has_skills : BOOLEAN, has_projects : BOOLEAN,
            unverified_skills : SeqsUpTo(UnverifiedNames, MaxGraphPool),
            discovered_projects : SeqsUpTo(ProjectNames, MaxGraphPool)] :
        /\ ~r.has_skills => r.unverified_skills = <<>>
        /\ ~r.has_projects => r.discovered_projects = <<>>
        /\ ~r.parsed => ~r.has_skills /\ ~r.has_projects}

\* What the tool-bound research LLM can answer
ResearchReplies ==
    {Message("ai", TRUE, <<>>),
     Message("ai", FALSE, ReadyToAnalyze),
     Message("ai", FALSE, <<"RESEARCH_COMPLETE">>),
     Message("ai", FALSE, <<"text">>),
     Message("ai", FALSE, <<>>)}

\* What the interviewer LLM (no tools bound) can answer
InterviewerReplies ==
    {Message("ai", FALSE, <<"question">>),
     Message("ai", FALSE, <<"Moving", " ", "on">>),
     Message("ai", FALSE, <<"The", " ">> \o SessionIsComplete),
     Message("ai", FALSE, <<" ">>)}

\* research_node: the update it returns, merged into the state
research_node(state, analysis, response) ==
    IF state.github_verified /\ state.linkedin_verified /\ state.unverified_skills = <<>>
    THEN IF analysis.parsed
         THEN [state EXCEPT
                 !.unverified_skills =
                     IF analysis.has_skills THEN analysis.unverified_skills ELSE <<>>,
                 !.discovered_projects =
                     IF analysis.has_projects THEN analysis.discovered_projects ELSE @,
                 !.messages = AddMessage(@, Message("ai", FALSE, InternalResearchComplete))]
         ELSE [state EXCEPT
                 !.unverified_skills = <<TechnicalDepth>>,
                 !.messages = AddMessage(@, Message("ai", FALSE, InternalResearchComplete))]
    ELSE LET is_first_turn == state.messages.n <= 1
             content ==
                 IF is_first_turn /\ response.content = <<>> /\ response.tool_calls
                 THEN UserGreeting
                 ELSE IF is_first_turn THEN UserGreeting \o response.content
                 ELSE response.content
         IN  [state EXCEPT
                 !.messages = AddMessage(@, [response EXCEPT !.content = content])]

\* The topic interviewer_node takes up when current_topic is empty
GraphSelectTopic(state) ==
    IF LegacyPickUnverified(state.unverified_skills, state.unverified_asked,
                            state.projects_asked)
    THEN UnverifiedPrefix \o state.unverified_skills[state.unverified_asked + 1]
    ELSE LET free(p) == p \notin {state.covered_topics[i] :
                                      i \in 1..Len(state.covered_topics)}
             available_projects == SelectSeq(state.discovered_projects, free)
         IN  IF available_projects # <<>>
             THEN ProjectPrefix \o available_projects[1]
             ELSE CVProject

\* interviewer_node: the update it returns, merged into the state
interviewer_node(state, response) ==
    LET current_topic ==
            IF state.current_topic = NoTopic THEN GraphSelectTopic(state)
            ELSE state.current_topic
        moving_on == Within(<<"moving", " ", "on">>, Lower(response.content))
    IN  [state EXCEPT
            !.messages = AddMessage(@, response),
            !.covered_topics =
                IF moving_on THEN Append(@, LastSegment(current_topic)) ELSE @,
            !.unverified_asked =
                IF moving_on /\ ContainsUnverified(current_topic) THEN @ + 1 ELSE @,
            !.projects_asked =
                IF moving_on /\ ~ContainsUnverified(current_topic) THEN @ + 1 ELSE @,
            !.current_topic = IF moving_on THEN NoTopic ELSE current_topic]

\* The state a run is invoked with: one human message, the verification
\* flags and the pools as the caller passes them
GraphInputs ==
    [messages : {[n |-> 1, last |-> Message("human", FALSE, <<"text">>)]},
     github_verified : BOOLEAN, linkedin_verified : BOOLEAN,
     unverified_skills : SeqsUpTo(UnverifiedNames, MaxGraphPool),
     discovered_projects : SeqsUpTo(ProjectNames, MaxGraphPool),
     unverified_asked : 0..MaxGraphAsked, projects_asked : 0..MaxGraphAsked,
     covered_topics : {<<>>}, current_topic : {NoTopic}]

NoNode == [cv_id |-> "", node |-> "", analysed |-> FALSE, unverified_skills |-> <<>>]

\* set_entry_point("research")
InitGraph ==
    /\ db \in [CvIds -> [skills : SkillLists, github : {"N/A"}, linkedin : {"N/A"}]]
    /\ session_store \in [CvIds -> GraphInputs]
    /\ last = NoNode
    /\ pending = [c \in CvIds |-> "research"]

\* The node "research" and its conditional edges
ResearchNode(cv_id) ==
    /\ pending[cv_id] = "research"
    /\ \E state \in {session_store[cv_id]} :
       \E analysed \in {/\ state.github_verified /\ state.linkedin_verified
                        /\ state.unverified_skills = <<>>} :
       \E analysis \in (IF analysed THEN AnalysisReplies
                        ELSE {[parsed |-> FALSE, has_skills |-> FALSE,
                               has_projects |-> FALSE, unverified_skills |-> <<>>,
                               discovered_projects |-> <<>>]}),
          response \in (IF analysed THEN {Message("ai", FALSE, <<>>)}
                        ELSE ResearchReplies) :
       \E after \in {research_node(state, analysis, response)} :
        /\ session_store' = Put(cv_id, after)
        /\ pending' = [pending EXCEPT ![cv_id] = should_continue(after)]
        /\ last' = [cv_id |-> cv_id, node |-> "research", analysed |-> analysed,
                    unverified_skills |-> after.unverified_skills]
        /\ UNCHANGED db

\* The node "tools" (ToolNode) and its edge to "research"
ToolsNode(cv_id) ==
    /\ pending[cv_id] = "tools"
    /\ session_store' =
           Put(cv_id, [session_store[cv_id] EXCEPT
                          !.messages = AddMessage(@, Message("tool", FALSE, <<"result">>))])
    /\ pending' = [pending EXCEPT ![cv_id] = "research"]
    /\ last' = [cv_id |-> cv_id, node |-> "tools", analysed |-> FALSE,
                unverified_skills |-> session_store[cv_id].unverified_skills]
    /\ UNCHANGED db

\* The node "interviewer" and its conditional edges
InterviewerNode(cv_id) ==
    /\ pending[cv_id] = "interviewer"
    /\ \E response \in InterviewerReplies :
       \E after \in {interviewer_node(session_store[cv_id], response)} :
        /\ session_store' = Put(cv_id, after)
        /\ pending' = [pending EXCEPT ![cv_id] = should_continue(after)]
        /\ last' = [cv_id |-> cv_id, node |-> "interviewer", analysed |-> FALSE,
                    unverified_skills |-> after.unverified_skills]
        /\ UNCHANGED db

\* The nodes should_continue can route to; it never returns "feedback"
NextGraph ==
    \E cv_id \in CvIds :
        \/ ResearchNode(cv_id)
        \/ ToolsNode(cv_id)
        \/ InterviewerNode(cv_id)

\* The runner executes the node an edge leads to: a run stops only at END
SpecGraph == InitGraph /\ [][NextGraph]_vars /\ WF_vars(NextGraph)

\* C34: once research_node has emitted INTERNAL_RESEARCH_COMPLETE, the run
\* eventually is routed to the interviewer or to END
C34_LeavesResearch ==
    \A cv_id \in CvIds :
        (last.cv_id = cv_id /\ last.node = "research" /\ last.analysed)
            ~> (pending[cv_id] \in {"interviewer", "END"})

-----------------------------------------------------------------------------
(* The supervisor graph (langflow-interview-agent/src/graph.py): one run of *)
(* the compiled graph.  session_store holds the InterviewTeamState, pending *)
(* the node the run executes next, last the node that ran.  The agents      *)
(* behind the workers are represented by the result process() hands back;   *)
(* the calls of the LLM and of the agents are taken to return.              *)

MaxTeamMessages == 3

options == {"GREETING", "RESEARCH", "KPI", "INTERVIEW", "FEEDBACK", "FINISH"}

\* The mapping of the conditional edge out of SUPERVISOR
EdgeMap ==
    [o \in options |-> IF o = "FINISH" THEN "END" ELSE o]

Workers == {"GREETING", "RESEARCH", "KPI", "INTERVIEW", "FEEDBACK"}

\* The Markdown code fence (three backquotes), with and without its language
FenceJson == "<fence>json"
Fence == "<fence>"

\* str.replace(old, ""), old being one token
Remove(s, old) == SelectSeq(s, LAMBDA c : c # old)

\* json.loads: an object holding the key 'next', an empty object, an array;
\* any other text raises.  The token "null" is JSON null, any other value
\* token a JSON string
JsonLoads(text) ==
    LET s == Strip(text)
    IN  IF Len(s) = 5 /\ s[1] = "{" /\ s[2] = "next" /\ s[3] = ":" /\ s[5] = "}"
              /\ s[4] \notin {"{", "}", "[", "]", ":", " ", "next"}
        THEN [ok |-> TRUE, object |-> TRUE, has_next |-> TRUE, next |-> s[4]]
        ELSE IF s = <<"{", "}">>
        THEN [ok |-> TRUE, object |-> TRUE, has_next |-> FALSE, next |-> ""]
        ELSE IF s = <<"[", "]">>
        THEN [ok |-> TRUE, object |-> FALSE, has_next |-> FALSE, next |-> ""]
        ELSE [ok |-> FALSE, object |-> FALSE, has_next |-> FALSE, next |-> ""]

\* supervisor_node: the decision parsed from response.content; json.loads
\* raising, and .get on a value that is no object, end in the except branch
supervisor_node(response_content) ==
    LET content == Remove(Remove(Strip(response_content), FenceJson), Fence)
        data == JsonLoads(content)
    IN  IF data.ok /\ data.object
        THEN IF data.has_next THEN data.next ELSE "RESEARCH"
        ELSE "RESEARCH"

\* The JSON texts the supervisor LLM can produce
SupervisorJson ==
    {<<"{", "next", ":", v, "}">> : v \in options \cup {"INTERVIEWER", "null"}}
        \cup {<<"{", "}">>, <<"[", "]">>}

\* What the supervisor LLM can answer: the JSON bare, or in a code fence, or
\* after a sentence, or a sentence alone
SupervisorReplies ==
    SupervisorJson
        \cup {<<" ", FenceJson, " ">> \o j \o <<" ", Fence, " ">> : j \in SupervisorJson}
        \cup {<<"Next", ":", " ">> \o j : j \in {<<"{", "next", ":", "KPI", "}">>}}
        \cup {<<"KPI">>, <<>>}

\* What process() of an agent hands back in result["context"]: the context
\* it was given, kpis and unverified_skills as the agent left them
AgentResults ==
    [kpis : BOOLEAN, unverified_skills : SeqsUpTo(UnverifiedNames, MaxGraphPool)]

\* worker_node: the update it returns, merged into the state
worker_node(state, result) ==
    LET context == [state.context EXCEPT !.state = state.next_node]
    IN  [state EXCEPT
            !.messages = @ + 1,
            !.kpis = result.kpis,
            !.unverified_skills = result.unverified_skills,
            !.context = [context EXCEPT
                            !.kpis = result.kpis,
                            !.unverified_skills = result.unverified_skills]]

\* The state a run is invoked with
TeamInputs ==
    [messages : 0..1, next_node : {""}, kpis : {FALSE},
     unverified_skills : {<<>>},
     context : {[state |-> "", kpis |-> FALSE, unverified_skills |-> <<>>]}]

NoTeamNode == [cv_id |-> "", node |-> "", content |-> <<>>]

\* add_edge(START, "SUPERVISOR")
InitTeam ==
    /\ db \in [CvIds -> [skills : SkillLists, github : {"N/A"}, linkedin : {"N/A"}]]
    /\ session_store \in [CvIds -> TeamInputs]
    /\ last = NoTeamNode
    /\ pending = [c \in CvIds |-> "SUPERVISOR"]

\* The node SUPERVISOR and its conditional edge: a next_node outside the
\* mapping leaves the run without a node to go to
SupervisorNode(cv_id) ==
    /\ pending[cv_id] = "SUPERVISOR"
    /\ \E content \in SupervisorReplies :
       \E decision \in {supervisor_node(content)} :
        /\ session_store' =
               Put(cv_id, [session_store[cv_id] EXCEPT !.next_node = decision])
        /\ pending' = [pending EXCEPT
                          ![cv_id] = IF decision \in DOMAIN EdgeMap
                                     THEN EdgeMap[decision] ELSE "unmapped"]
        /\ last' = [cv_id |-> cv_id, node |-> "SUPERVISOR", content |-> content]
        /\ UNCHANGED db

\* A worker node and its edge back to SUPERVISOR
WorkerNode(cv_id) ==
    /\ pending[cv_id] \in Workers
    /\ session_store[cv_id].messages < MaxTeamMessages
    /\ \E result \in AgentResults :
        /\ session_store' = Put(cv_id, worker_node(session_store[cv_id], result))
        /\ pending' = [pending EXCEPT ![cv_id] = "SUPERVISOR"]
        /\ last' = [cv_id |-> cv_id, node |-> pending[cv_id], content |-> <<>>]
        /\ UNCHANGED db

NextTeam ==
    \E cv_id \in CvIds :
        \/ SupervisorNode(cv_id)
        \/ WorkerNode(cv_id)

SpecTeam == InitTeam /\ [][NextTeam]_vars

\* C35: supervisor_node always yields one of the six options as next_node,
\* RESEARCH whenever the output is not the expected JSON, so the edge out of
\* SUPERVISOR resolves; every worker hands control back to SUPERVISOR and the
\* run is at END only when the supervisor chose FINISH
C35_SupervisorRoutes ==
    \A cv_id \in CvIds :
        LET state == session_store[cv_id]
            data == JsonLoads(Remove(Remove(Strip(last.content), FenceJson), Fence))
            expected == data.ok /\ data.object /\ data.has_next /\ data.next \in options
        IN  /\ (last.cv_id = cv_id /\ last.node = "SUPERVISOR")
                   => /\ state.next_node \in options
                      /\ pending[cv_id] \in Workers \cup {"END"}
                      /\ ~expected => state.next_node = "RESEARCH"
            /\ (last.cv_id = cv_id /\ last.node \in Workers)
                   => pending[cv_id] = "SUPERVISOR"
            /\ pending[cv_id] = "END" => state.next_node = "FINISH"

=============================================================================
